---- MODULE Spec2Model ----
(***************************************************************************)
(* Model of the DiscordEventBot core: the meal statistics store            *)
(* (meal_cog.StatsManager), the archive scheduler                          *)
(* (archive_scheduler.ArchiveScheduler) and the reminder scheduler         *)
(* (reminder_scheduler.ReminderScheduler).                                 *)
(*                                                                         *)
(* All coroutines run on one asyncio event loop: a step of the model is    *)
(* the code a coroutine runs between two suspension points (await).        *)
(***************************************************************************)
EXTENDS Integers, Sequences, FiniteSets, TLC

VARIABLES
    data,        \* StatsManager.data: str(user_id) -> record
    file,        \* contents of StatsManager.file_path on disk
    lock,        \* StatsManager._lock: the holder, or None
    pc,          \* per caller: position inside record_meal
    call,        \* per caller: locals of the record_meal call in flight
    started,     \* per user: record_meal calls made so far
    scenario,    \* per user: how far the user's calls follow TestDates
    write_error, \* whether StatsManager._save_locked has logged a failed write
    active_fights,   \* FoodFightManager.active_fights: fight_id -> FoodFight
    ff_file,         \* contents of FoodFightManager.file_path on disk
    ff_lock,         \* FoodFightManager._lock: the holder, or None
    ff_call,         \* per caller: locals of the FoodFightManager call in flight
    ff_calls,        \* FoodFightManager calls made so far
    ff_write_error,  \* whether FoodFightManager._save_locked has logged a failed write
    completed_fights, \* FoodFightManager.completed_fights: fight_id -> FoodFight
    ff_result        \* what the last FoodFightManager call that ran under the lock returns

statsVars == <<data, file, lock, call, started, scenario, write_error>>
fightVars == <<active_fights, ff_file, ff_lock, ff_call, ff_calls, ff_write_error,
               completed_fights, ff_result>>

VARIABLES
    utcnow,          \* discord.utils.utcnow(), in hours
    tasks,           \* every asyncio.Task the schedulers created, in creation order
    scheduled_tasks, \* ArchiveScheduler.scheduled_tasks: event id -> task
    reminder_tasks,  \* ReminderScheduler.scheduled_tasks: event id -> list of tasks
    sched_error,     \* whether the last scheduler call raised
    noop_cancel      \* "cancel_archive" or "cancel_reminders" when the step just taken was
                     \* that call for an id without an entry, "none" otherwise

schedVars == <<utcnow, tasks, scheduled_tasks, reminder_tasks, sched_error, noop_cancel>>

VARIABLES
    event_posts,         \* ForumManager.event_posts: event id -> thread
    cached_participants, \* ForumManager.cached_participants: event id -> list
    threads,             \* the posts of the forum channel, in creation order
    handlers,            \* the running EventHandler coroutines and their locals
    notifications,       \* the events delivered to the EventHandler so far
    reminder_message     \* the last message _send_reminder sent

forumVars == <<event_posts, cached_participants, threads, handlers, notifications,
               reminder_message>>
vars == <<pc, statsVars, fightVars, schedVars, forumVars>>

None == "None"

(***************************************************************************)
(* Bounds                                                                  *)
(***************************************************************************)
Users == {1, 2}
Procs == {"p1", "p2"}
\* calls a single caller makes one after the other
MaxCalls == 4
\* calls made in total when several callers overlap
MaxOverlapCalls == 3

(***************************************************************************)
(* Calendar dates (datetime.date) as [y, m, d] records                     *)
(***************************************************************************)
Date(y, m, d) == [y |-> y, m |-> m, d |-> d]

IsLeap(y) == (y % 4 = 0) /\ ((y % 100 # 0) \/ (y % 400 = 0))

DaysInMonth(y, m) ==
    IF m = 2 THEN (IF IsLeap(y) THEN 29 ELSE 28)
    ELSE IF m \in {4, 6, 9, 11} THEN 30 ELSE 31

\* date - timedelta(days=1)
PrevDay(dt) ==
    IF dt.d > 1 THEN Date(dt.y, dt.m, dt.d - 1)
    ELSE IF dt.m > 1 THEN Date(dt.y, dt.m - 1, DaysInMonth(dt.y, dt.m - 1))
    ELSE Date(dt.y - 1, 12, 31)

\* date + timedelta(days=1)
NextDay(dt) ==
    IF dt.d < DaysInMonth(dt.y, dt.m) THEN Date(dt.y, dt.m, dt.d + 1)
    ELSE IF dt.m < 12 THEN Date(dt.y, dt.m + 1, 1)
    ELSE Date(dt.y + 1, 1, 1)

\* The local calendar days and wall-clock hours a caller's `now` is drawn from,
\* and its UTC offsets in hours.
LocalDays == {Date(2025, 1, 2), Date(2025, 1, 3)}
LocalHours == {1, 23}
UtcOffsets == {-2, 2}
Nows == [date : LocalDays, hour : LocalHours, off : UtcOffsets]

\* now.astimezone(timezone.utc).date()
UtcDate(now) ==
    LET h == now.hour - now.off
    IN  IF h < 0 THEN PrevDay(now.date)
        ELSE IF h >= 24 THEN NextDay(now.date)
        ELSE now.date

Pad2(n) == IF n < 10 THEN "0" \o ToString(n) ELSE ToString(n)

\* date.isoformat(): "YYYY-MM-DD"
IsoFormat(dt) == ToString(dt.y) \o "-" \o Pad2(dt.m) \o "-" \o Pad2(dt.d)

\* Every date a record of the model can hold.
UtcDays == {UtcDate(n) : n \in Nows}

\* The `None` of a variable that holds a date.
NoDate == Date(0, 0, 0)

\* datetime.fromisoformat(s).date(); NoDate stands for the ValueError branch
FromIsoFormat(s) ==
    IF \E dt \in UtcDays : IsoFormat(dt) = s
    THEN CHOOSE dt \in UtcDays : IsoFormat(dt) = s
    ELSE NoDate

(***************************************************************************)
(* StatsManager                                                            *)
(***************************************************************************)
\* str(user_id)
Key(u) == ToString(u)

MealStats(c, sc, sb, last) ==
    [count |-> c, streak_current |-> sc, streak_best |-> sb, last_post_date_utc |-> last]

DefaultStats == MealStats(0, 0, 0, None)

\* self.data.get(str(user_id), {...})
DataGet(d, u) == IF Key(u) \in DOMAIN d THEN d[Key(u)] ELSE DefaultStats

Max(a, b) == IF a >= b THEN a ELSE b

\* last_date of record_meal: the stored date parsed back, None when absent
LastDate(current) ==
    IF current.last_post_date_utc # None
    THEN FromIsoFormat(current.last_post_date_utc)
    ELSE NoDate

\* a variant: a gap or an earlier date keeps the streak
NewStreakKeepsOnGap(current, today) ==
    LET last_date == LastDate(current)
        sc == current.streak_current
    IN  IF last_date = NoDate THEN 1
        ELSE IF last_date = today THEN Max(sc, 1)
        ELSE IF last_date = PrevDay(today) THEN (IF sc # 0 THEN sc + 1 ELSE 1)
        ELSE Max(sc, 1)

\* a variant: a same-day call extends the streak
NewStreakSameDayCounts(current, today) ==
    LET last_date == LastDate(current)
        sc == current.streak_current
    IN  IF last_date = NoDate THEN 1
        ELSE IF last_date = today \/ last_date = PrevDay(today) THEN sc + 1
        ELSE 1

\* the streak_current computed by record_meal
NewStreak(current, today) ==
    LET last_date == LastDate(current)
        sc == current.streak_current
    IN  IF last_date = NoDate THEN 1
        ELSE IF last_date = today THEN Max(sc, 1)
        ELSE IF last_date = PrevDay(today) THEN (IF sc # 0 THEN sc + 1 ELSE 1)
        ELSE 1

\* a variant: streak_best follows streak_current
UpdatedBestIsCurrent(current, today) ==
    LET sc == NewStreak(current, today)
    IN  MealStats(current.count + 1, sc, sc, IsoFormat(today))

\* a variant: a same-day call is not counted
UpdatedCountsDays(current, today) ==
    LET sc == NewStreak(current, today)
    IN  MealStats(IF LastDate(current) = today THEN current.count ELSE current.count + 1,
                  sc, Max(current.streak_best, sc), IsoFormat(today))

\* the MealStats record_meal builds from the stored record
Updated(current, today) ==
    LET sc == NewStreak(current, today)
    IN  MealStats(current.count + 1, sc, Max(current.streak_best, sc), IsoFormat(today))

\* self.data[str(user_id)] = updated.__dict__
DataPut(d, u, rec) ==
    [k \in DOMAIN d \cup {Key(u)} |-> IF k = Key(u) THEN rec ELSE d[k]]

\* json.dumps(self.data): keys are strings and values ints, strings and null,
\* so the document is the mapping itself
Dumps(d) == d

\* the locals of a caller: before the lock is taken only user and today are set
Locals(u, today, updated, payload) ==
    [user |-> u, today |-> today, updated |-> updated, payload |-> payload]

NoCall == Locals(0, NoDate, DefaultStats, << >>)

\* the file on disk: << >> when absent, <<document>> otherwise
NoFile == << >>

RECURSIVE Sum(_, _)
Sum(f, S) == IF S = {} THEN 0 ELSE LET x == CHOOSE x \in S : TRUE IN f[x] + Sum(f, S \ {x})

(***************************************************************************)
(* FoodFightManager: data                                                  *)
(***************************************************************************)
\* A Python dict keeps insertion order: a sequence of [k, v] entries with
\* distinct keys.
Entry(k, v) == [k |-> k, v |-> v]

DictKeys(d) == {d[i].k : i \in DOMAIN d}

DictHas(d, k) == k \in DictKeys(d)

\* d[k]
DictGet(d, k) == d[CHOOSE i \in DOMAIN d : d[i].k = k].v

\* d[k] = v
DictSet(d, k, v) ==
    IF DictHas(d, k)
    THEN [i \in DOMAIN d |-> IF d[i].k = k THEN Entry(k, v) ELSE d[i]]
    ELSE Append(d, Entry(k, v))

\* a datetime converted to UTC: its UTC calendar day and hour
Instant(date, hour) == [date |-> date, hour |-> hour]

\* dt.astimezone(timezone.utc)
UtcInstant(now) ==
    Instant(UtcDate(now), (now.hour - now.off + 24) % 24)

DateBefore(a, b) ==
    \/ a.y < b.y
    \/ a.y = b.y /\ a.m < b.m
    \/ a.y = b.y /\ a.m = b.m /\ a.d < b.d

\* a comparison that holds for equal instants too
BeforeOrAt(a, b) ==
    \/ DateBefore(a.date, b.date)
    \/ a.date = b.date /\ a.hour <= b.hour

\* a < b on aware datetimes
Before(a, b) ==
    \/ DateBefore(a.date, b.date)
    \/ a.date = b.date /\ a.hour < b.hour

\* datetime.isoformat() of a UTC datetime: "YYYY-MM-DDTHH:00:00+00:00"
IsoFormatDT(t) == IsoFormat(t.date) \o "T" \o Pad2(t.hour) \o ":00:00+00:00"

\* the instants fights start and dishes are logged at
FightNows == {n \in Nows : n.date = Date(2025, 1, 2)}

UtcInstants == {UtcInstant(n) : n \in FightNows}

\* datetime.fromisoformat(s)
FromIsoFormatDT(s) == CHOOSE t \in UtcInstants : IsoFormatDT(t) = s

FightIds == {"fight_1", "fight_2"}

\* announcement_message_id of a fight: fight_id is "fight_<message id>"
MessageId(fight_id) == IF fight_id = "fight_1" THEN 1 ELSE 2

ChannelId == 7

ValidEmojis == <<"A", "B">>

\* the team assignments fights are started with
Rosters == { <<Entry(1, "A"), Entry(2, "B")>>, <<Entry(2, "A")>> }

\* the FoodFight start_food_fight creates
NewFoodFight(fight_id, team_assignments, start_time) ==
    [fight_id |-> fight_id,
     announcement_message_id |-> MessageId(fight_id),
     channel_id |-> ChannelId,
     valid_emojis |-> ValidEmojis,
     team_assignments |-> team_assignments,
     dishes_counted |-> [i \in DOMAIN team_assignments |-> Entry(team_assignments[i].k, 0)],
     start_time |-> IsoFormatDT(UtcInstant(start_time)),
     end_time |-> None]

\* a test that does not look at the team assignments
CountedAnyUser(fight, user_id, dish_time) ==
    ~Before(UtcInstant(dish_time), FromIsoFormatDT(fight.start_time))

\* whether record_dish counts a dish of user_id at dish_time in the fight
Counted(fight, user_id, dish_time) ==
    /\ DictHas(fight.team_assignments, user_id)
    /\ ~Before(UtcInstant(dish_time), FromIsoFormatDT(fight.start_time))

\* the fight after record_dish's loop body
WithDish(fight, user_id, dish_time) ==
    IF Counted(fight, user_id, dish_time)
    THEN [fight EXCEPT !.dishes_counted =
            DictSet(@, user_id, (IF DictHas(@, user_id) THEN DictGet(@, user_id) ELSE 0) + 1)]
    ELSE fight

\* active_fights after record_dish's loop
DishRecorded(fights, user_id, dish_time) ==
    [i \in DOMAIN fights |-> Entry(fights[i].k, WithDish(fights[i].v, user_id, dish_time))]

\* counted_fights of record_dish
CountedFights(fights, user_id, dish_time) ==
    LET hit(e) == Counted(e.v, user_id, dish_time)
        ids(e) == e.k
        sel == SelectSeq(fights, hit)
    IN  [i \in DOMAIN sel |-> sel[i].k]

\* json.dumps of a dict with int keys: the keys become strings
StrKeys(d) == [i \in DOMAIN d |-> Entry(ToString(d[i].k), d[i].v)]

\* asdict(fight) as json.dumps writes it
FightDoc(fight) ==
    [fight EXCEPT !.team_assignments = StrKeys(@), !.dishes_counted = StrKeys(@)]

\* {fight_id: asdict(fight) for fight_id, fight in fights.items()}
FightDocs(fights) == [i \in DOMAIN fights |-> Entry(fights[i].k, FightDoc(fights[i].v))]

\* a document that leaves the completed fights out
FightsDumpsActiveOnly(active, completed) ==
    [active_fights |-> FightDocs(active), completed_fights |-> << >>]

\* json.dumps(data) of _save_locked
FightsDumpsOf(active, completed) ==
    [active_fights |-> FightDocs(active), completed_fights |-> FightDocs(completed)]

\* the document _save_locked writes once active_fights is fights
FightsDumps(fights) == FightsDumpsOf(fights, completed_fights)

\* x in list
InList(x, list) == \E i \in DOMAIN list : list[i] = x

\* int(user_id) of a key json.dumps wrote
ToInt(s) == CHOOSE u \in Users : ToString(u) = s

\* {int(user_id): v for user_id, v in d.items()}
IntKeys(d) == [i \in DOMAIN d |-> Entry(ToInt(d[i].k), d[i].v)]

\* FoodFight(**fight_data) after load converted the keys of both dicts
FightFromDoc(doc) ==
    [doc EXCEPT !.team_assignments = IntKeys(@), !.dishes_counted = IntKeys(@)]

\* the fights load builds from one section of the document
LoadedFights(docs) == [i \in DOMAIN docs |-> Entry(docs[i].k, FightFromDoc(docs[i].v))]

\* a file text json.loads rejects
InvalidText == [text |-> "{"]

\* the fields FoodFight(**fight_data) needs; end_time has a default
FightFields ==
    {"fight_id", "announcement_message_id", "channel_id", "valid_emojis", "team_assignments",
     "dishes_counted", "start_time"}

\* whether the body of load runs without an exception on the text: it is JSON
\* and FoodFight(**fight_data) accepts every entry of both sections
Readable(doc) ==
    /\ doc # InvalidText
    /\ \A i \in DOMAIN (doc.active_fights \o doc.completed_fights) :
          LET fight_data == (doc.active_fights \o doc.completed_fights)[i].v
          IN  /\ FightFields \subseteq DOMAIN fight_data
              /\ DOMAIN fight_data \subseteq FightFields \cup {"end_time"}

\* active_fights and completed_fights after load read the text: after an
\* exception both are empty
Read(doc) ==
    IF Readable(doc)
    THEN [active |-> LoadedFights(doc.active_fights),
          completed |-> LoadedFights(doc.completed_fights)]
    ELSE [active |-> << >>, completed |-> << >>]

\* an end that leaves end_time as it was
StampedNot(fight, end_time) == fight

\* food_fight.end_time = (end_time or datetime.now(timezone.utc)).isoformat()
Stamped(fight, end_time) == [fight EXCEPT !.end_time = IsoFormatDT(end_time)]

\* d.pop(k)
DictPop(d, k) ==
    LET other(e) == e.k # k
    IN  SelectSeq(d, other)

\* active_fights and completed_fights after the body of end_food_fight
Ended(active, completed, fight_id, end_time) ==
    IF ~DictHas(active, fight_id)
    THEN [found |-> FALSE, active |-> active, completed |-> completed]
    ELSE [found |-> TRUE, active |-> DictPop(active, fight_id),
          completed |-> DictSet(completed, fight_id,
                                Stamped(DictGet(active, fight_id), end_time))]

\* a tally that starts without teams
NoTeams(fight) == << >>

\* teams[emoji] = {"total_dishes": 0, "participants": []} for every valid emoji
EmptyTeams(fight) ==
    LET RECURSIVE Filled(_, _)
        Filled(teams, i) ==
            IF i > Len(fight.valid_emojis) THEN teams
            ELSE Filled(DictSet(teams, fight.valid_emojis[i],
                                [total_dishes |-> 0, participants |-> << >>]), i + 1)
    IN  Filled(<< >>, 1)

\* teams after the loop of get_tallies over team_assignments
Teams(fight) ==
    LET RECURSIVE Tallied(_, _)
        Tallied(teams, i) ==
            IF i > Len(fight.team_assignments) THEN teams
            ELSE LET user_id == fight.team_assignments[i].k
                     emoji == fight.team_assignments[i].v
                     dish_count == IF DictHas(fight.dishes_counted, user_id)
                                   THEN DictGet(fight.dishes_counted, user_id) ELSE 0
                 IN  IF ~DictHas(teams, emoji) THEN Tallied(teams, i + 1)
                     ELSE LET team == DictGet(teams, emoji)
                          IN  Tallied(DictSet(teams, emoji,
                                   [total_dishes |-> team.total_dishes + dish_count,
                                    participants |-> Append(team.participants,
                                         [user_id |-> user_id, dishes |-> dish_count])]),
                                      i + 1)
    IN  Tallied(EmptyTeams(fight), 1)

\* the dict get_tallies returns for a fight
Tallies(fight) ==
    [teams |-> Teams(fight), start_time |-> fight.start_time, end_time |-> fight.end_time]

\* the tallies of a call that returns None
NoTallies == [teams |-> << >>, start_time |-> "", end_time |-> ""]

\* whether get_tallies finds the fight
Found(active, completed, fight_id) == DictHas(active, fight_id) \/ DictHas(completed, fight_id)

\* get_tallies(fight_id): the active fights are looked up first
GetTallies(active, completed, fight_id) ==
    IF DictHas(active, fight_id) THEN Tallies(DictGet(active, fight_id))
    ELSE IF DictHas(completed, fight_id) THEN Tallies(DictGet(completed, fight_id))
    ELSE NoTallies

\* an element of a list to sort, with the key it is sorted by
Keyed(key, item) == [key |-> key, item |-> item]

\* an insertion that puts an element before the elements of equal key
PlacedBeforeTies(sorted, x) ==
    LET larger(e) == e.key > x.key
        n == Len(SelectSeq(sorted, larger))
    IN  SubSeq(sorted, 1, n) \o <<x>> \o SubSeq(sorted, n + 1, Len(sorted))

\* x put into a list sorted by descending key, after the elements of equal key
Placed(sorted, x) ==
    LET not_smaller(e) == e.key >= x.key
        n == Len(SelectSeq(sorted, not_smaller))
    IN  SubSeq(sorted, 1, n) \o <<x>> \o SubSeq(sorted, n + 1, Len(sorted))

RECURSIVE SortedReverse(_)
\* list.sort(key=..., reverse=True) and sorted(..., reverse=True): a stable
\* sort, elements of equal key keep the order they had
SortedReverse(list) ==
    IF list = << >> THEN << >>
    ELSE Placed(SortedReverse(SubSeq(list, 1, Len(list) - 1)), list[Len(list)])

\* team_results of foodfight_end after team_results.sort(key=lambda x: x[1], reverse=True)
TeamResults(tallies) ==
    LET keyed == [i \in DOMAIN tallies.teams |->
                    Keyed(tallies.teams[i].v.total_dishes,
                          [emoji |-> tallies.teams[i].k,
                           total |-> tallies.teams[i].v.total_dishes,
                           participants |-> Len(tallies.teams[i].v.participants)])]
        sorted == SortedReverse(keyed)
    IN  [i \in DOMAIN sorted |-> sorted[i].item]

\* participants after participants.sort(key=lambda x: x["dishes"], reverse=True)
SortedParticipants(participants) ==
    LET keyed == [i \in DOMAIN participants |-> Keyed(participants[i].dishes, participants[i])]
        sorted == SortedReverse(keyed)
    IN  [i \in DOMAIN sorted |-> sorted[i].item]

\* the teams in the order of the participant breakdown of foodfight_end, each
\* with its sorted participants
ParticipantDetails(tallies) ==
    LET keyed == [i \in DOMAIN tallies.teams |->
                    Keyed(tallies.teams[i].v.total_dishes, tallies.teams[i])]
        sorted == SortedReverse(keyed)
    IN  [i \in DOMAIN sorted |->
            Entry(sorted[i].item.k, SortedParticipants(sorted[i].item.v.participants))]

\* message.reactions of the announcements: an emoji and the users who reacted
\* with it
MessageReactions ==
    { << [emoji |-> "A", users |-> <<2>>], [emoji |-> "C", users |-> <<1>>] >>,
      << [emoji |-> "A", users |-> <<2, 1>>], [emoji |-> "B", users |-> <<1>>] >> }

RECURSIVE UserReactions(_, _, _)
\* user_reactions of foodfight_start: reactions with another emoji are
\* skipped, the others are appended to the list of each user who reacted
UserReactions(user_reactions, reactions, valid_emojis) ==
    IF reactions = << >> THEN user_reactions
    ELSE LET reaction == Head(reactions)
             RECURSIVE Appended(_, _)
             Appended(d, i) ==
                 IF i > Len(reaction.users) THEN d
                 ELSE LET user_id == reaction.users[i]
                          so_far == IF DictHas(d, user_id) THEN DictGet(d, user_id) ELSE << >>
                      IN  Appended(DictSet(d, user_id, Append(so_far, reaction.emoji)), i + 1)
         IN  UserReactions(IF InList(reaction.emoji, valid_emojis)
                           THEN Appended(user_reactions, 1) ELSE user_reactions,
                           Tail(reactions), valid_emojis)

\* what random.choice picks
Picks == {"first", "last"}

\* random.choice(valid_reactions)
Choice(list, pick) == IF pick = "first" THEN list[1] ELSE list[Len(list)]

\* a variant: the team is picked among all teams of the fight
TeamAssignmentsAnyTeam(reactions, valid_emojis, pick) ==
    LET user_reactions == UserReactions(<< >>, reactions, valid_emojis)
    IN  [i \in DOMAIN user_reactions |-> Entry(user_reactions[i].k, Choice(valid_emojis, pick))]

\* team_assignments of foodfight_start
TeamAssignments(reactions, valid_emojis, pick) ==
    LET user_reactions == UserReactions(<< >>, reactions, valid_emojis)
        valid(e) == InList(e, valid_emojis)
        assigned(entry) == SelectSeq(entry.v, valid) # << >>
        kept == SelectSeq(user_reactions, assigned)
    IN  [i \in DOMAIN kept |-> Entry(kept[i].k, Choice(SelectSeq(kept[i].v, valid), pick))]

\* the team assignments foodfight_start passes to start_food_fight: without
\* any, it returns before the call
FightRosters ==
    {TeamAssignments(m, ValidEmojis, pick) : m \in MessageReactions, pick \in Picks} \ {<< >>}

\* what a FoodFightManager call returns: whether the fight was found
\* (end_food_fight, get_tallies), counted_fights (record_dish), the tallies
\* (get_tallies) and what foodfight_end makes of them
Result(op, fight_id, user_id, found, counted, tallies) ==
    [op |-> op, fight_id |-> fight_id, user_id |-> user_id, found |-> found,
     counted |-> counted, tallies |-> tallies,
     team_results |-> TeamResults(tallies), details |-> ParticipantDetails(tallies)]

NoResult == Result("none", None, 0, FALSE, << >>, NoTallies)

\* locals of a FoodFightManager call
FightLocals(user_id, time, fight_id, roster, payload) ==
    [user_id |-> user_id, time |-> time, fight_id |-> fight_id, roster |-> roster,
     payload |-> payload]

NoNow == [date |-> NoDate, hour |-> 0, off |-> 0]

NoPayload == [active_fights |-> << >>, completed_fights |-> << >>]

NoFightCall == FightLocals(0, NoNow, None, << >>, NoPayload)

\* FoodFightManager.__init__
InitFights(callers) ==
    /\ active_fights = << >>
    /\ ff_file = NoFile
    /\ ff_lock = None
    /\ ff_call = [p \in callers |-> NoFightCall]
    /\ ff_calls = 0
    /\ ff_write_error = FALSE
    /\ completed_fights = << >>
    /\ ff_result = NoResult

(***************************************************************************)
(* ArchiveScheduler and ReminderScheduler: data                            *)
(***************************************************************************)
EventIds == {1, 2}

\* the most tasks the schedulers create
MaxTasks == 2

\* the clock advances MaxTicks times
MaxTicks == 2

\* archive_delay_hours, as Config.ARCHIVE_DELAY_HOURS sets it
ArchiveDelayHours == 24

\* reminder_times, in hours before the start
ReminderTimes == <<24, 12>>

\* the clock advances by the smallest reminder offset, so that every wake-up
\* time of a task is a time the clock shows
TickHours == ReminderTimes[Len(ReminderTimes)]

\* the `None` of a variable that holds a time
NoTime == -1000

\* event.end_time of the events passed to schedule_archive
EndTimes == {NoTime, -ArchiveDelayHours, 0}

\* event.start_time of the events passed to schedule_reminders
StartTimes == {NoTime, 2 * TickHours, 3 * TickHours}

\* An asyncio.Task and what it captured. kind: "archive_delayed" runs
\* _archive_task_delayed, "archive_now" runs _archive_task, "reminder" runs
\* _reminder_task_delayed. state: "sleeping" in asyncio.sleep, "ready" created
\* and not yet run, "archiving" suspended in archive_forum_post, "fetching"
\* suspended in get_participants_func, "sending" suspended in channel.send,
\* "done" returned, "cancelled" ended by the CancelledError of cancel(),
\* "failed" ended by another exception.
Task(kind, event, time, offset, wake_at, state) ==
    [kind |-> kind, event |-> event, time |-> time, offset |-> offset,
     wake_at |-> wake_at, state |-> state]

Finished(task) == task.state \in {"done", "cancelled", "failed"}

\* a task whose exception no handler catches
ExceptionEscapes == "failed"

\* `except Exception as e: logger.error(...)`: the coroutine returns
AfterException == "done"

\* a cancel() that has no effect
CancelIgnored(ts, t) == ts

\* task.cancel(): the task ends with CancelledError at the await it is
\* suspended in; a finished task is left alone
Cancel(ts, t) ==
    IF Finished(ts[t]) THEN ts ELSE [ts EXCEPT ![t].state = "cancelled"]

\* a loop that cancels the first task of the list only
CancelFirst(ts, list) == IF list = << >> THEN ts ELSE Cancel(ts, Head(list))

RECURSIVE CancelAll(_, _)
\* for task in tasks: task.cancel()
CancelAll(ts, list) ==
    IF list = << >> THEN ts ELSE CancelAll(Cancel(ts, Head(list)), Tail(list))

\* del table[event_id]
Without(table, e) == [k \in DOMAIN table \ {e} |-> table[k]]

\* table[event_id] = value
With(table, e, value) == [k \in DOMAIN table \cup {e} |-> IF k = e THEN value ELSE table[k]]

InitSched ==
    /\ utcnow = 0
    /\ tasks = << >>
    /\ scheduled_tasks = << >>
    /\ reminder_tasks = << >>
    /\ sched_error = FALSE
    /\ noop_cancel = "none"

\* the dates of test_stats_manager_streaks, in call order
TestDates == <<Date(2025, 1, 1), Date(2025, 1, 1), Date(2025, 1, 2), Date(2025, 1, 4)>>

\* scenario[u] = k: the k calls recorded for u so far had the first k TestDates;
\* Off: they departed from them
Off == -1

Follow(k, today) ==
    IF k # Off /\ k < Len(TestDates) /\ today = TestDates[k + 1] THEN k + 1 ELSE Off

Callers == DOMAIN pc

\* calls made so far, to either manager
CallsMade == Sum(started, Users) + ff_calls

CallBudget == IF Cardinality(Callers) = 1 THEN MaxCalls ELSE MaxOverlapCalls

\* StatsManager.__init__ and FoodFightManager.__init__, with the given callers
\* about to use them
\* the coroutines of the EventHandler that can run at the same time
Handlers == {"h1", "h2"}

\* what get_event_participants returns: the users event.users() yielded, or
\* None (ok is FALSE) after an exception
Enumerated(users) == [ok |-> TRUE, users |-> users]

EnumerationFailed == [ok |-> FALSE, users |-> << >>]

\* locals of an EventHandler coroutine. at: "participants" suspended in
\* get_event_participants, "create_thread" in forum_channel.create_thread,
\* "edit" in thread.history / first_message.edit, "idle" not running
HandlerLocals(op, at, event, start_time, end_time, participants, enumerated, thread, created) ==
    [op |-> op, at |-> at, event |-> event, start_time |-> start_time, end_time |-> end_time,
     participants |-> participants, enumerated |-> enumerated, thread |-> thread,
     created |-> created]

NoHandler == HandlerLocals("none", "idle", 0, NoTime, NoTime, << >>, EnumerationFailed, 0, FALSE)

\* the message of a reminder nobody sent
NoMessage == [mentions |-> <<0>>, more |-> 0]

InitForum ==
    /\ event_posts = << >>
    /\ cached_participants = << >>
    /\ threads = << >>
    /\ handlers = [h \in Handlers |-> NoHandler]
    /\ notifications = [count |-> 0, created |-> FALSE, end_time |-> NoTime]
    /\ reminder_message = NoMessage

InitStatsFor(callers) ==
    /\ InitFights(callers)
    /\ InitSched
    /\ InitForum
    /\ data = << >>
    /\ file = NoFile
    /\ lock = None
    /\ pc = [p \in callers |-> "idle"]
    /\ call = [p \in callers |-> NoCall]
    /\ started = [u \in Users |-> 0]
    /\ scenario = [u \in Users |-> 0]
    /\ write_error = FALSE

\* a variant: the record is rewritten without holding the lock over the write
LockedNotHeld(p, u, today) ==
    LET updated == Updated(DataGet(data, u), today)
        d2 == DataPut(data, u, updated)
    IN  /\ data' = d2
        /\ lock' = lock
        /\ call' = [call EXCEPT ![p] = Locals(u, today, updated, Dumps(d2))]
        /\ pc' = [pc EXCEPT ![p] = "saving"]
        /\ scenario' = [scenario EXCEPT ![u] = Follow(@, today)]

\* The body of `async with self._lock` up to the await inside _save_locked:
\* read, update, store in memory, serialise.
Locked(p, u, today) ==
    LET updated == Updated(DataGet(data, u), today)
        d2 == DataPut(data, u, updated)
    IN  /\ data' = d2
        /\ lock' = p
        /\ call' = [call EXCEPT ![p] = Locals(u, today, updated, Dumps(d2))]
        /\ pc' = [pc EXCEPT ![p] = "saving"]
        /\ scenario' = [scenario EXCEPT ![u] = Follow(@, today)]

\* record_meal is called: compute today; with the lock free the caller runs on
\* to the file write, otherwise it suspends in the lock's queue.
RecordMealCall(p, u, now) ==
    /\ pc[p] = "idle"
    /\ CallsMade < CallBudget
    /\ started' = [started EXCEPT ![u] = @ + 1]
    /\ IF lock = None
       THEN Locked(p, u, UtcDate(now))
       ELSE /\ pc' = [pc EXCEPT ![p] = "waiting"]
            /\ call' = [call EXCEPT ![p] = Locals(u, UtcDate(now), DefaultStats, << >>)]
            /\ UNCHANGED <<data, lock, scenario>>
    /\ UNCHANGED <<file, write_error, fightVars, schedVars, forumVars>>

\* a waiting caller gets the lock
RecordMealAcquire(p) ==
    /\ pc[p] = "waiting"
    /\ lock = None
    /\ Locked(p, call[p].user, call[p].today)
    /\ UNCHANGED <<file, started, write_error, fightVars, schedVars, forumVars>>

\* the write in the worker thread ends (ok, or with an exception that
\* _save_locked logs); the lock is released and record_meal returns `updated`
RecordMealReturn(p, ok) ==
    /\ pc[p] = "saving"
    /\ file' = IF ok THEN <<call[p].payload>> ELSE file
    /\ lock' = None
    /\ write_error' = (write_error \/ ~ok)
    /\ pc' = [pc EXCEPT ![p] = "idle"]
    /\ call' = [call EXCEPT ![p] = NoCall]
    /\ UNCHANGED <<data, started, scenario, fightVars, schedVars, forumVars>>

(***************************************************************************)
(* FoodFightManager: operations                                            *)
(***************************************************************************)
\* The body of start_food_fight under the lock up to the await inside
\* _save_locked.
StartLocked(p, fight_id, roster, start_time) ==
    LET fights == DictSet(active_fights, fight_id, NewFoodFight(fight_id, roster, start_time))
    IN  /\ active_fights' = fights
        /\ ff_lock' = p
        /\ ff_call' = [ff_call EXCEPT ![p] =
                         FightLocals(0, start_time, fight_id, roster, FightsDumps(fights))]
        /\ ff_result' = Result("start", fight_id, 0, TRUE, << >>, NoTallies)
        /\ pc' = [pc EXCEPT ![p] = "ff_saving"]

\* start_food_fight is called
StartFoodFightCall(p, fight_id, roster, start_time) ==
    /\ pc[p] = "idle"
    /\ CallsMade < CallBudget
    /\ ff_calls' = ff_calls + 1
    /\ IF ff_lock = None
       THEN StartLocked(p, fight_id, roster, start_time)
       ELSE /\ pc' = [pc EXCEPT ![p] = "start_waiting"]
            /\ ff_call' = [ff_call EXCEPT ![p] =
                             FightLocals(0, start_time, fight_id, roster, NoPayload)]
            /\ UNCHANGED <<active_fights, ff_lock, ff_result>>
    /\ UNCHANGED <<ff_file, ff_write_error, completed_fights, statsVars, schedVars, forumVars>>

\* a waiting start_food_fight gets the lock
StartFoodFightAcquire(p) ==
    /\ pc[p] = "start_waiting"
    /\ ff_lock = None
    /\ StartLocked(p, ff_call[p].fight_id, ff_call[p].roster, ff_call[p].time)
    /\ UNCHANGED <<ff_file, ff_calls, ff_write_error, completed_fights, statsVars, schedVars, forumVars>>

\* The body of record_dish under the lock: the loop over the active fights,
\* then, when a fight counted the dish, _save_locked up to its await; when
\* none did, the lock is released and record_dish returns at once.
DishLocked(p, user_id, dish_time) ==
    LET fights == DishRecorded(active_fights, user_id, dish_time)
        counted_fights == CountedFights(active_fights, user_id, dish_time)
    IN  /\ active_fights' = fights
        /\ ff_result' = Result("record_dish", None, user_id, TRUE, counted_fights, NoTallies)
        /\ IF counted_fights # << >>
           THEN /\ ff_lock' = p
                /\ ff_call' = [ff_call EXCEPT ![p] =
                                 FightLocals(user_id, dish_time, None, << >>, FightsDumps(fights))]
                /\ pc' = [pc EXCEPT ![p] = "ff_saving"]
           ELSE /\ ff_lock' = None
                /\ ff_call' = [ff_call EXCEPT ![p] = NoFightCall]
                /\ pc' = [pc EXCEPT ![p] = "idle"]

\* record_dish is called
RecordDishCall(p, user_id, dish_time) ==
    /\ pc[p] = "idle"
    /\ CallsMade < CallBudget
    /\ ff_calls' = ff_calls + 1
    /\ IF ff_lock = None
       THEN DishLocked(p, user_id, dish_time)
       ELSE /\ pc' = [pc EXCEPT ![p] = "dish_waiting"]
            /\ ff_call' = [ff_call EXCEPT ![p] =
                             FightLocals(user_id, dish_time, None, << >>, NoPayload)]
            /\ UNCHANGED <<active_fights, ff_lock, ff_result>>
    /\ UNCHANGED <<ff_file, ff_write_error, completed_fights, statsVars, schedVars, forumVars>>

\* a waiting record_dish gets the lock
RecordDishAcquire(p) ==
    /\ pc[p] = "dish_waiting"
    /\ ff_lock = None
    /\ DishLocked(p, ff_call[p].user_id, ff_call[p].time)
    /\ UNCHANGED <<ff_file, ff_calls, ff_write_error, completed_fights, statsVars, schedVars, forumVars>>

\* the write in the worker thread ends (ok, or with an exception that
\* _save_locked logs); the lock is released and the call returns
FightSaveReturn(p, ok) ==
    /\ pc[p] = "ff_saving"
    /\ ff_file' = IF ok THEN <<ff_call[p].payload>> ELSE ff_file
    /\ ff_write_error' = (ff_write_error \/ ~ok)
    /\ ff_lock' = None
    /\ pc' = [pc EXCEPT ![p] = "idle"]
    /\ ff_call' = [ff_call EXCEPT ![p] = NoFightCall]
    /\ UNCHANGED <<active_fights, ff_calls, completed_fights, ff_result, statsVars, schedVars, forumVars>>

\* The body of end_food_fight under the lock: without the fight among the
\* active ones it returns None at once, otherwise the fight is moved and
\* _save_locked runs up to its await.
EndLocked(p, fight_id, end_time) ==
    LET ended == Ended(active_fights, completed_fights, fight_id, end_time)
    IN  /\ active_fights' = ended.active
        /\ completed_fights' = ended.completed
        /\ ff_result' = Result("end", fight_id, 0, ended.found, << >>, NoTallies)
        /\ IF ended.found
           THEN /\ ff_lock' = p
                /\ ff_call' = [ff_call EXCEPT ![p] =
                                 FightLocals(0, NoNow, fight_id, << >>,
                                             FightsDumpsOf(ended.active, ended.completed))]
                /\ pc' = [pc EXCEPT ![p] = "ff_saving"]
           ELSE /\ ff_lock' = None
                /\ ff_call' = [ff_call EXCEPT ![p] = NoFightCall]
                /\ pc' = [pc EXCEPT ![p] = "idle"]

\* end_food_fight(fight_id) is called, as foodfight_end calls it: end_time is
\* datetime.now(timezone.utc). The lock is free whenever one caller makes its
\* calls one after the other.
EndFoodFightCall(p, fight_id, end_time) ==
    /\ pc[p] = "idle"
    /\ ff_lock = None
    /\ CallsMade < CallBudget
    /\ ff_calls' = ff_calls + 1
    /\ EndLocked(p, fight_id, end_time)
    /\ UNCHANGED <<ff_file, ff_write_error, statsVars, schedVars, forumVars>>

\* get_tallies(fight_id), and the ranking foodfight_end makes of what it returns
GetTalliesCall(p, fight_id) ==
    /\ pc[p] = "idle"
    /\ ff_lock = None
    /\ CallsMade < CallBudget
    /\ ff_calls' = ff_calls + 1
    /\ ff_result' = Result("get_tallies", fight_id, 0,
                           Found(active_fights, completed_fights, fight_id), << >>,
                           GetTallies(active_fights, completed_fights, fight_id))
    /\ UNCHANGED <<active_fights, completed_fights, ff_file, ff_lock, ff_call,
                   ff_write_error, pc, statsVars, schedVars, forumVars>>

\* the fight of the files found at a start
FoundFight(fight_id) ==
    NewFoodFight(fight_id, CHOOSE r \in FightRosters : Len(r) = 2,
                 CHOOSE t \in FightNows : t.hour = 1 /\ t.off < 0)

\* what the fights file may hold when the bot starts: nothing JSON, one open
\* fight, or an open fight and a completed one that lacks fields
FightTexts ==
    { InvalidText,
      FightsDumpsOf(<<Entry("fight_1", FoundFight("fight_1"))>>, << >>),
      [active_fights |-> FightDocs(<<Entry("fight_1", FoundFight("fight_1"))>>),
       completed_fights |-> <<Entry("fight_2", [fight_id |-> "fight_2"])>>] }

\* what the stats file may hold when the bot starts: nothing JSON, the stats
\* of one user, or an object whose record lacks fields
StatsTexts ==
    { InvalidText,
      [k \in {Key(1)} |-> MealStats(1, 1, 1, IsoFormat(Date(2025, 1, 2)))],
      [k \in {Key(1)} |-> [count |-> 1]] }

\* between two runs of the bot the files are removed or replaced
FightsFileLeft(f) ==
    /\ \A p \in Callers : pc[p] = "idle"
    /\ ff_file' = f
    /\ UNCHANGED <<active_fights, completed_fights, ff_lock, ff_call, ff_calls, ff_write_error,
                   ff_result, pc, statsVars, schedVars, forumVars>>

StatsFileLeft(f) ==
    /\ \A p \in Callers : pc[p] = "idle"
    /\ file' = f
    /\ UNCHANGED <<data, lock, call, started, scenario, write_error, pc, fightVars, schedVars, forumVars>>

\* StatsManager.load(): a missing file is created as "{}"; text that is not
\* JSON leaves data empty; any JSON value becomes data as it is
StatsLoad ==
    /\ \A p \in Callers : pc[p] = "idle"
    /\ IF file = NoFile
       THEN /\ file' = << << >> >>
            /\ data' = << >>
       ELSE /\ data' = IF file[1] = InvalidText THEN << >> ELSE file[1]
            /\ UNCHANGED file
    /\ UNCHANGED <<lock, call, started, scenario, write_error, pc, fightVars, schedVars, forumVars>>

\* the bot is started again: load() of a fresh FoodFightManager on the same
\* file. A missing file is created with two empty sections.
Load ==
    /\ \A p \in Callers : pc[p] = "idle"
    /\ CallsMade < CallBudget
    /\ ff_calls' = ff_calls + 1
    /\ IF ff_file = NoFile
       THEN /\ ff_file' = <<FightsDumpsOf(<< >>, << >>)>>
            /\ active_fights' = << >>
            /\ completed_fights' = << >>
       ELSE /\ active_fights' = Read(ff_file[1]).active
            /\ completed_fights' = Read(ff_file[1]).completed
            /\ UNCHANGED ff_file
    /\ ff_result' = Result("load", None, 0, TRUE, << >>, NoTallies)
    /\ UNCHANGED <<ff_lock, ff_call, ff_write_error, pc, statsVars, schedVars, forumVars>>

\* one caller: record_meal calls one after the other, none ever waits
NextStatsSeq ==
    \/ \E p \in Callers, u \in Users, now \in Nows : RecordMealCall(p, u, now)
    \/ \E p \in Callers, ok \in BOOLEAN : RecordMealReturn(p, ok)

SpecStats == InitStatsFor({"p1"}) /\ [][NextStatsSeq]_vars

\* the instants overlapping callers pass: 01:00 local time on 2025-01-02, which
\* is 03:00 UTC that day at UTC-2 and 23:00 UTC the day before at UTC+2
StoreNows == {n \in FightNows : n.hour = 1}

\* overlapping callers
NextStore ==
    \/ \E p \in Callers, u \in Users, now \in StoreNows : RecordMealCall(p, u, now)
    \/ \E p \in Callers : RecordMealAcquire(p)
    \/ \E p \in Callers, ok \in BOOLEAN : RecordMealReturn(p, ok)
    \/ \E p \in Callers, r \in Rosters, t \in StoreNows :
            StartFoodFightCall(p, "fight_1", r, t)
    \/ \E p \in Callers : StartFoodFightAcquire(p)
    \/ \E p \in Callers, u \in Users, t \in StoreNows : RecordDishCall(p, u, t)
    \/ \E p \in Callers : RecordDishAcquire(p)
    \/ \E p \in Callers, ok \in BOOLEAN : FightSaveReturn(p, ok)

SpecStore == InitStatsFor(Procs) /\ [][NextStore]_vars

\* the most FoodFightManager calls the one caller makes
MaxFightCalls == 3

\* one caller of the FoodFightManager: /foodfight-start, /cooked and
\* /foodfight-end one after the other, and restarts of the bot in between
NextFights ==
    \/ \E p \in Callers, fight_id \in FightIds, r \in FightRosters, t \in StoreNows :
          ff_calls < MaxFightCalls /\ StartFoodFightCall(p, fight_id, r, t)
    \/ \E p \in Callers, u \in Users, t \in StoreNows :
          ff_calls < MaxFightCalls /\ RecordDishCall(p, u, t)
    \/ \E p \in Callers, fight_id \in FightIds, t \in StoreNows :
          ff_calls < MaxFightCalls /\ EndFoodFightCall(p, fight_id, UtcInstant(t))
    \/ \E p \in Callers, fight_id \in FightIds :
          ff_calls < MaxFightCalls /\ GetTalliesCall(p, fight_id)
    \/ ff_calls < MaxFightCalls /\ Load
    \/ \E p \in Callers, ok \in BOOLEAN : FightSaveReturn(p, ok)

SpecFights == InitStatsFor({"p1"}) /\ [][NextFights]_vars

\* /foodfight-start on a message with the reactions: without any team
\* assignment, or when the fight is already active, the command returns
\* before start_food_fight; otherwise the fight starts with the assignments
FoodFightStart(p, fight_id, reactions, pick, start_time) ==
    LET team_assignments == TeamAssignments(reactions, ValidEmojis, pick)
    IN  /\ team_assignments # << >>
        /\ ~DictHas(active_fights, fight_id)
        /\ StartFoodFightCall(p, fight_id, team_assignments, start_time)

\* on_raw_reaction_add: get_all_active_fights under the lock, then the first
\* active fight announced by the message is looked at and the reaction with
\* one of its emojis is logged; nothing is written
OnRawReactionAdd(p, message_id, emoji, user_id) ==
    LET announced(entry) == entry.v.announcement_message_id = message_id
        fights == SelectSeq(active_fights, announced)
        logged == fights # << >> /\ InList(emoji, fights[1].v.valid_emojis)
    IN  /\ pc[p] = "idle"
        /\ ff_lock = None
        /\ ff_calls' = ff_calls + 1
        /\ ff_result' = Result("reaction_add", IF logged THEN fights[1].k ELSE None, user_id,
                               logged, << >>, NoTallies)
        /\ UNCHANGED <<active_fights, completed_fights, ff_file, ff_lock, ff_call, ff_write_error,
                       pc, statsVars, schedVars, forumVars>>

\* on_raw_reaction_remove: pass
OnRawReactionRemove(p, user_id) ==
    /\ pc[p] = "idle"
    /\ ff_calls' = ff_calls + 1
    /\ ff_result' = Result("reaction_remove", None, user_id, FALSE, << >>, NoTallies)
    /\ UNCHANGED <<active_fights, completed_fights, ff_file, ff_lock, ff_call, ff_write_error,
                   pc, statsVars, schedVars, forumVars>>

\* a fight is started from the reactions to its announcement, dishes are
\* logged, reactions come and go, the fight is ended
NextTeams ==
    \/ \E p \in Callers, fight_id \in FightIds, m \in MessageReactions, pick \in Picks,
          t \in StoreNows :
          ff_calls < MaxFightCalls /\ FoodFightStart(p, fight_id, m, pick, t)
    \/ \E p \in Callers, u \in Users, t \in StoreNows :
          ff_calls < MaxFightCalls /\ RecordDishCall(p, u, t)
    \/ \E p \in Callers, fight_id \in FightIds, emoji \in {"A", "C"}, u \in Users :
          ff_calls < MaxFightCalls /\ OnRawReactionAdd(p, MessageId(fight_id), emoji, u)
    \/ \E p \in Callers, u \in Users :
          ff_calls < MaxFightCalls /\ OnRawReactionRemove(p, u)
    \/ \E p \in Callers, fight_id \in FightIds, t \in StoreNows :
          ff_calls < MaxFightCalls /\ EndFoodFightCall(p, fight_id, UtcInstant(t))
    \/ \E p \in Callers, ok \in BOOLEAN : FightSaveReturn(p, ok)

SpecTeams == InitStatsFor({"p1"}) /\ [][NextTeams]_vars

\* starts of the bot on the files an earlier run, or somebody else, left
NextLoad ==
    \/ \E f \in {NoFile} \cup {<<t>> : t \in FightTexts} : FightsFileLeft(f)
    \/ \E f \in {NoFile} \cup {<<t>> : t \in StatsTexts} : StatsFileLeft(f)
    \/ ff_calls < MaxFightCalls /\ Load
    \/ StatsLoad
    \/ \E p \in Callers, r \in FightRosters, t \in StoreNows :
          ff_calls < MaxFightCalls /\ StartFoodFightCall(p, "fight_2", r, t)
    \/ \E p \in Callers, ok \in BOOLEAN : FightSaveReturn(p, ok)

SpecLoad == InitStatsFor({"p1"}) /\ [][NextLoad]_vars

(***************************************************************************)
(* ArchiveScheduler: operations                                            *)
(***************************************************************************)
\* an archive time that counts half the delay
ArchiveTimeHalfDelay(end_time) == end_time + ArchiveDelayHours \div 2

\* archive_time = event.end_time + timedelta(hours=self.archive_delay_hours)
ArchiveTime(end_time) == end_time + ArchiveDelayHours

\* schedule_archive(event, forum_manager, callback) for an event with the
\* given id and end_time
ScheduleArchive(e, end_time) ==
    LET ts == IF e \in DOMAIN scheduled_tasks THEN Cancel(tasks, scheduled_tasks[e]) ELSE tasks
        archive_time == ArchiveTime(end_time)
        delay == archive_time - utcnow
    IN  /\ noop_cancel' = "none"
        /\ sched_error' = FALSE
        /\ IF end_time = NoTime
           THEN /\ tasks' = ts
                /\ UNCHANGED scheduled_tasks
           ELSE /\ Len(tasks) < MaxTasks
                /\ IF delay <= 0
                   THEN /\ tasks' = Append(ts, Task("archive_now", e, end_time, 0, utcnow, "ready"))
                        /\ UNCHANGED scheduled_tasks
                   ELSE /\ tasks' = Append(ts, Task("archive_delayed", e, end_time, 0,
                                                    utcnow + delay, "sleeping"))
                        /\ scheduled_tasks' = With(scheduled_tasks, e, Len(ts) + 1)
        /\ UNCHANGED <<utcnow, reminder_tasks, pc, statsVars, fightVars, forumVars>>

\* _archive_task up to its first suspension: without the archive category it
\* returns, otherwise it waits for archive_forum_post
ArchiveBegin(t, category_found) ==
    /\ tasks' = [tasks EXCEPT ![t].state = IF category_found THEN "archiving" ELSE "done"]
    /\ noop_cancel' = "none"
    /\ UNCHANGED <<utcnow, scheduled_tasks, reminder_tasks, sched_error, pc, statsVars, fightVars, forumVars>>

\* asyncio.sleep(delay_seconds) of _archive_task_delayed is over
ArchiveWake(t, category_found) ==
    /\ t \in DOMAIN tasks
    /\ tasks[t].kind = "archive_delayed"
    /\ tasks[t].state = "sleeping"
    /\ utcnow >= tasks[t].wake_at
    /\ ArchiveBegin(t, category_found)

\* the event loop runs a task created for _archive_task
ArchiveStart(t, category_found) ==
    /\ t \in DOMAIN tasks
    /\ tasks[t].kind = "archive_now"
    /\ tasks[t].state = "ready"
    /\ ArchiveBegin(t, category_found)

\* what archive_forum_post and the callback do
ArchiveOutcomes == {"archived", "not_archived", "post_raises", "callback_raises"}

\* the outcomes in which archive_forum_post or the callback raises
Raises(outcome) == outcome \in {"post_raises", "callback_raises"}

\* archive_forum_post is over and _archive_task runs to its end: on success
\* the callback, then the removal of the event's entry; an exception skips
\* the rest
ArchiveFinish(t, outcome) ==
    /\ t \in DOMAIN tasks
    /\ tasks[t].state = "archiving"
    /\ tasks' = [tasks EXCEPT ![t].state = IF Raises(outcome) THEN AfterException ELSE "done"]
    /\ scheduled_tasks' =
          IF ~Raises(outcome) /\ tasks[t].event \in DOMAIN scheduled_tasks
          THEN Without(scheduled_tasks, tasks[t].event)
          ELSE scheduled_tasks
    /\ noop_cancel' = "none"
    /\ UNCHANGED <<utcnow, reminder_tasks, sched_error, pc, statsVars, fightVars, forumVars>>

\* a cancel_archive that cancels the task and keeps its entry
ArchiveCancelledKeepsEntry(e) ==
    IF e \in DOMAIN scheduled_tasks
    THEN [tasks |-> Cancel(tasks, scheduled_tasks[e]), table |-> scheduled_tasks, error |-> FALSE]
    ELSE [tasks |-> tasks, table |-> scheduled_tasks, error |-> FALSE]

\* a cancel_archive that deletes the entry without looking for it first
ArchiveCancelledUnguarded(e) ==
    IF e \in DOMAIN scheduled_tasks
    THEN [tasks |-> Cancel(tasks, scheduled_tasks[e]), table |-> Without(scheduled_tasks, e),
          error |-> FALSE]
    ELSE [tasks |-> tasks, table |-> scheduled_tasks, error |-> TRUE]

\* the tasks and the table after the body of cancel_archive(event_id); error:
\* whether it raised
ArchiveCancelled(e) ==
    IF e \in DOMAIN scheduled_tasks
    THEN [tasks |-> Cancel(tasks, scheduled_tasks[e]), table |-> Without(scheduled_tasks, e),
          error |-> FALSE]
    ELSE [tasks |-> tasks, table |-> scheduled_tasks, error |-> FALSE]

\* cancel_archive(event_id)
CancelArchive(e) ==
    /\ noop_cancel' = IF e \in DOMAIN scheduled_tasks THEN "none" ELSE "cancel_archive"
    /\ tasks' = ArchiveCancelled(e).tasks
    /\ scheduled_tasks' = ArchiveCancelled(e).table
    /\ sched_error' = ArchiveCancelled(e).error
    /\ UNCHANGED <<utcnow, reminder_tasks, pc, statsVars, fightVars, forumVars>>

\* archive_immediately(event, forum_manager, callback)
ArchiveImmediately(e) ==
    /\ Len(tasks) < MaxTasks
    /\ noop_cancel' = "none"
    /\ tasks' = Append(ArchiveCancelled(e).tasks, Task("archive_now", e, NoTime, 0, utcnow, "ready"))
    /\ scheduled_tasks' = ArchiveCancelled(e).table
    /\ sched_error' = ArchiveCancelled(e).error
    /\ UNCHANGED <<utcnow, reminder_tasks, pc, statsVars, fightVars, forumVars>>

(***************************************************************************)
(* ReminderScheduler: operations                                           *)
(***************************************************************************)
\* the tasks and the table after the body of cancel_reminders(event_id)
RemindersCancelled(e) ==
    IF e \in DOMAIN reminder_tasks
    THEN [tasks |-> CancelAll(tasks, reminder_tasks[e]), table |-> Without(reminder_tasks, e),
          error |-> FALSE]
    ELSE [tasks |-> tasks, table |-> reminder_tasks, error |-> FALSE]

\* cancel_reminders(event_id)
CancelReminders(e) ==
    /\ noop_cancel' = IF e \in DOMAIN reminder_tasks THEN "none" ELSE "cancel_reminders"
    /\ tasks' = RemindersCancelled(e).tasks
    /\ reminder_tasks' = RemindersCancelled(e).table
    /\ sched_error' = RemindersCancelled(e).error
    /\ UNCHANGED <<utcnow, scheduled_tasks, pc, statsVars, fightVars, forumVars>>

\* a test that looks only at whether the event has started
ScheduledUnlessStarted(start_time, reminder_time) == ~(start_time <= utcnow)

\* whether schedule_reminders creates a task for reminder_time
Scheduled(start_time, reminder_time) ==
    /\ ~(start_time - reminder_time <= utcnow)
    /\ ~(start_time <= utcnow)

\* the reminder times schedule_reminders creates tasks for, in order
ScheduledTimes(start_time) ==
    LET keep(reminder_time) == Scheduled(start_time, reminder_time)
    IN  SelectSeq(ReminderTimes, keep)

\* schedule_reminders(event, get_participants_func) for an event with the
\* given id and start_time
ScheduleReminders(e, start_time) ==
    LET cancelled == RemindersCancelled(e)
        times == IF start_time = NoTime THEN << >> ELSE ScheduledTimes(start_time)
        first == Len(tasks)
        reminder_list == [i \in DOMAIN times |-> first + i]
        created == [i \in DOMAIN times |->
                      Task("reminder", e, start_time, times[i], start_time - times[i], "sleeping")]
    IN  /\ Len(tasks) + Len(times) <= MaxTasks
        /\ noop_cancel' = "none"
        /\ sched_error' = cancelled.error
        /\ tasks' = cancelled.tasks \o created
        /\ reminder_tasks' = IF reminder_list # << >>
                             THEN With(cancelled.table, e, reminder_list)
                             ELSE cancelled.table
        /\ UNCHANGED <<utcnow, scheduled_tasks, pc, statsVars, fightVars, forumVars>>

\* asyncio.sleep(delay_seconds) of _reminder_task_delayed is over and
\* _send_reminder runs up to get_participants_func: without the channel, or at
\* or after the start, it returns
ReminderWake(t, channel_found) ==
    /\ t \in DOMAIN tasks
    /\ tasks[t].kind = "reminder"
    /\ tasks[t].state = "sleeping"
    /\ utcnow >= tasks[t].wake_at
    /\ tasks' = [tasks EXCEPT ![t].state =
                    IF ~channel_found THEN "done"
                    ELSE IF tasks[t].time # NoTime /\ utcnow >= tasks[t].time THEN "done"
                    ELSE "fetching"]
    /\ noop_cancel' = "none"
    /\ UNCHANGED <<utcnow, scheduled_tasks, reminder_tasks, sched_error, pc, statsVars, fightVars, forumVars>>

\* get_participants_func is over: when it raised, _send_reminder logs and
\* returns; otherwise (None counts as no participants) the message is built
\* and channel.send called
ReminderFetched(t, raised) ==
    /\ t \in DOMAIN tasks
    /\ tasks[t].state = "fetching"
    /\ tasks' = [tasks EXCEPT ![t].state = IF raised THEN AfterException ELSE "sending"]
    /\ noop_cancel' = "none"
    /\ UNCHANGED <<utcnow, scheduled_tasks, reminder_tasks, sched_error, pc, statsVars, fightVars, forumVars>>

\* channel.send is over: it returned, or raised and _send_reminder logged it
ReminderSent(t, raised) ==
    /\ t \in DOMAIN tasks
    /\ tasks[t].state = "sending"
    /\ tasks' = [tasks EXCEPT ![t].state = IF raised THEN AfterException ELSE "done"]
    /\ noop_cancel' = "none"
    /\ UNCHANGED <<utcnow, scheduled_tasks, reminder_tasks, sched_error, pc, statsVars, fightVars, forumVars>>

\* time passes
Tick ==
    /\ utcnow < MaxTicks * TickHours
    /\ utcnow' = utcnow + TickHours
    /\ noop_cancel' = "none"
    /\ UNCHANGED <<tasks, scheduled_tasks, reminder_tasks, sched_error, pc, statsVars, fightVars, forumVars>>

(***************************************************************************)
(* EventHandler and EventBot.process_existing_events                       *)
(***************************************************************************)
\* what schedule_archive(event, ...) makes of the tasks ts and the table
ArchiveScheduled(ts, table, e, end_time) ==
    LET kept == IF e \in DOMAIN table THEN Cancel(ts, table[e]) ELSE ts
        delay == ArchiveTime(end_time) - utcnow
    IN  IF end_time = NoTime
        THEN [tasks |-> kept, table |-> table]
        ELSE IF delay <= 0
             THEN [tasks |-> Append(kept, Task("archive_now", e, end_time, 0, utcnow, "ready")),
                   table |-> table]
             ELSE [tasks |-> Append(kept, Task("archive_delayed", e, end_time, 0,
                                               utcnow + delay, "sleeping")),
                   table |-> With(table, e, Len(kept) + 1)]

\* what schedule_reminders(event, ...) makes of the tasks ts and the table
RemindersScheduled(ts, table, e, start_time) ==
    LET kept == IF e \in DOMAIN table THEN CancelAll(ts, table[e]) ELSE ts
        cleared == IF e \in DOMAIN table THEN Without(table, e) ELSE table
        times == IF start_time = NoTime THEN << >> ELSE ScheduledTimes(start_time)
        reminder_list == [i \in DOMAIN times |-> Len(kept) + i]
        created == [i \in DOMAIN times |->
                      Task("reminder", e, start_time, times[i], start_time - times[i], "sleeping")]
    IN  [tasks |-> kept \o created,
         table |-> IF reminder_list # << >> THEN With(cleared, e, reminder_list) ELSE cleared]

\* the tasks and tables as they are
Schedules == [tasks |-> tasks, scheduled_tasks |-> scheduled_tasks,
              reminder_tasks |-> reminder_tasks]

\* on_scheduled_event_create(event) when forum_manager.get_thread(event.id)
\* finds nothing: the schedulers are called only with the thread
\* create_forum_post returns; without it, or after an exception, nothing is
\* scheduled
OnScheduledEventCreate(e, end_time, start_time, thread_created) ==
    IF thread_created
    THEN LET archive == ArchiveScheduled(tasks, scheduled_tasks, e, end_time)
             reminders == RemindersScheduled(archive.tasks, reminder_tasks, e, start_time)
         IN  [tasks |-> reminders.tasks, scheduled_tasks |-> archive.table,
              reminder_tasks |-> reminders.table]
    ELSE Schedules

\* on_scheduled_event_update(before, after): reminders are cancelled and
\* scheduled again only when the start time changed; schedule_archive is called
\* after update_forum_post, unless that raised
OnScheduledEventUpdate(e, before_start, after_start, end_time, raised) ==
    LET cancelled == IF e \in DOMAIN reminder_tasks
                     THEN [tasks |-> CancelAll(tasks, reminder_tasks[e]),
                           table |-> Without(reminder_tasks, e)]
                     ELSE [tasks |-> tasks, table |-> reminder_tasks]
        reminders == IF before_start # after_start
                     THEN RemindersScheduled(cancelled.tasks, cancelled.table, e, after_start)
                     ELSE [tasks |-> tasks, table |-> reminder_tasks]
        archive == IF raised
                   THEN [tasks |-> reminders.tasks, table |-> scheduled_tasks]
                   ELSE ArchiveScheduled(reminders.tasks, scheduled_tasks, e, end_time)
    IN  [tasks |-> archive.tasks, scheduled_tasks |-> archive.table,
         reminder_tasks |-> reminders.table]

\* one round of the loop of process_existing_events, for an event with the
\* given id, end_time and start_time: with a thread in the mapping or found by
\* name the event is handled as updated, with itself as before and after;
\* without one it is handled as created. ok: the forum calls of the handler
\* succeed
ProcessExistingEvent(e, end_time, start_time, thread, ok) ==
    LET after == IF thread
                 THEN OnScheduledEventUpdate(e, start_time, start_time, end_time, ~ok)
                 ELSE OnScheduledEventCreate(e, end_time, start_time, ok)
    IN  /\ Len(after.tasks) <= MaxTasks
        /\ tasks' = after.tasks
        /\ scheduled_tasks' = after.scheduled_tasks
        /\ reminder_tasks' = after.reminder_tasks
        /\ noop_cancel' = "none"
        /\ UNCHANGED <<utcnow, sched_error, pc, statsVars, fightVars, forumVars>>

TaskIds == 1..MaxTasks

NextSched ==
    \/ \E e \in EventIds, end_time \in EndTimes : ScheduleArchive(e, end_time)
    \/ \E t \in TaskIds, found \in BOOLEAN : ArchiveWake(t, found)
    \/ \E t \in TaskIds, found \in BOOLEAN : ArchiveStart(t, found)
    \/ \E t \in TaskIds, outcome \in ArchiveOutcomes : ArchiveFinish(t, outcome)
    \/ \E e \in EventIds : CancelArchive(e)
    \/ \E e \in EventIds : ArchiveImmediately(e)
    \/ \E e \in EventIds, start_time \in StartTimes : ScheduleReminders(e, start_time)
    \/ \E t \in TaskIds, found \in BOOLEAN : ReminderWake(t, found)
    \/ \E t \in TaskIds, raised \in BOOLEAN : ReminderFetched(t, raised)
    \/ \E t \in TaskIds, raised \in BOOLEAN : ReminderSent(t, raised)
    \/ \E e \in EventIds : CancelReminders(e)
    \/ Tick

\* the archive scheduler alone
NextArchive ==
    \/ \E e \in EventIds, end_time \in EndTimes : ScheduleArchive(e, end_time)
    \/ \E t \in TaskIds, found \in BOOLEAN : ArchiveWake(t, found)
    \/ \E t \in TaskIds, found \in BOOLEAN : ArchiveStart(t, found)
    \/ \E t \in TaskIds, outcome \in ArchiveOutcomes : ArchiveFinish(t, outcome)
    \/ \E e \in EventIds : CancelArchive(e)
    \/ \E e \in EventIds : ArchiveImmediately(e)
    \/ Tick

SpecArchive == InitStatsFor({}) /\ [][NextArchive]_vars

\* the event loop resumes a task whose asyncio.sleep is over
SpecArchiveFair ==
    SpecArchive /\ \A t \in TaskIds : WF_vars(\E found \in BOOLEAN : ArchiveWake(t, found))

\* the reminder scheduler alone
NextReminders ==
    \/ \E e \in EventIds, start_time \in StartTimes : ScheduleReminders(e, start_time)
    \/ \E t \in TaskIds, found \in BOOLEAN : ReminderWake(t, found)
    \/ \E t \in TaskIds, raised \in BOOLEAN : ReminderFetched(t, raised)
    \/ \E t \in TaskIds, raised \in BOOLEAN : ReminderSent(t, raised)
    \/ \E e \in EventIds : CancelReminders(e)
    \/ Tick

SpecReminders == InitStatsFor({}) /\ [][NextReminders]_vars

\* both schedulers for events still to come: the archive time and the start
\* time are ahead when schedule_archive and schedule_reminders are called
NextUpcoming ==
    \/ \E e \in EventIds : ScheduleArchive(e, 0)
    \/ \E t \in TaskIds, found \in BOOLEAN : ArchiveWake(t, found)
    \/ \E t \in TaskIds, outcome \in ArchiveOutcomes : ArchiveFinish(t, outcome)
    \/ \E e \in EventIds : CancelArchive(e)
    \/ \E e \in EventIds, start_time \in StartTimes \ {NoTime} :
          ScheduleReminders(e, start_time)
    \/ \E t \in TaskIds, found \in BOOLEAN : ReminderWake(t, found)
    \/ \E t \in TaskIds, raised \in BOOLEAN : ReminderFetched(t, raised)
    \/ \E t \in TaskIds, raised \in BOOLEAN : ReminderSent(t, raised)
    \/ \E e \in EventIds : CancelReminders(e)
    \/ Tick

SpecUpcoming == InitStatsFor({}) /\ [][NextUpcoming]_vars

\* the bot after a restart: the tables are empty and the existing events are
\* processed while the tasks created for them run
NextRestart ==
    \/ \E e \in EventIds, end_time \in EndTimes, start_time \in StartTimes,
          thread \in BOOLEAN, ok \in BOOLEAN :
          ProcessExistingEvent(e, end_time, start_time, thread, ok)
    \/ \E t \in TaskIds, found \in BOOLEAN : ArchiveWake(t, found)
    \/ \E t \in TaskIds, found \in BOOLEAN : ArchiveStart(t, found)
    \/ \E t \in TaskIds, outcome \in ArchiveOutcomes : ArchiveFinish(t, outcome)
    \/ \E t \in TaskIds, found \in BOOLEAN : ReminderWake(t, found)
    \/ \E t \in TaskIds, raised \in BOOLEAN : ReminderFetched(t, raised)
    \/ \E t \in TaskIds, raised \in BOOLEAN : ReminderSent(t, raised)
    \/ Tick

SpecRestart == InitStatsFor({}) /\ [][NextRestart]_vars

\* both schedulers, no StatsManager or FoodFightManager caller
SpecSched == InitStatsFor({}) /\ [][NextSched]_vars

\* the most tasks there are once an event was deleted
MaxDeleteTasks == 3

\* on_scheduled_event_delete(event): cancel_reminders, then
\* archive_immediately
OnScheduledEventDelete(e) ==
    LET reminders == RemindersCancelled(e)
        archived == IF e \in DOMAIN scheduled_tasks
                    THEN [tasks |-> Cancel(reminders.tasks, scheduled_tasks[e]),
                          table |-> Without(scheduled_tasks, e)]
                    ELSE [tasks |-> reminders.tasks, table |-> scheduled_tasks]
    IN  /\ Len(tasks) < MaxDeleteTasks
        /\ tasks' = Append(archived.tasks, Task("archive_now", e, NoTime, 0, utcnow, "ready"))
        /\ scheduled_tasks' = archived.table
        /\ reminder_tasks' = reminders.table
        /\ noop_cancel' = "none"
        /\ sched_error' = FALSE
        /\ UNCHANGED <<utcnow, pc, statsVars, fightVars, forumVars>>

\* an event gets its archive task and its reminders, the tasks run, and the
\* event is deleted
NextDelete ==
    \/ \E end_time \in EndTimes \ {NoTime} : ScheduleArchive(1, end_time)
    \/ \E t \in 1..MaxDeleteTasks, found \in BOOLEAN : ArchiveWake(t, found)
    \/ \E t \in 1..MaxDeleteTasks, found \in BOOLEAN : ArchiveStart(t, found)
    \/ \E t \in 1..MaxDeleteTasks, outcome \in ArchiveOutcomes : ArchiveFinish(t, outcome)
    \/ \E start_time \in StartTimes \ {NoTime} : ScheduleReminders(1, start_time)
    \/ \E t \in 1..MaxDeleteTasks, found \in BOOLEAN : ReminderWake(t, found)
    \/ \E t \in 1..MaxDeleteTasks, raised \in BOOLEAN : ReminderFetched(t, raised)
    \/ \E t \in 1..MaxDeleteTasks, raised \in BOOLEAN : ReminderSent(t, raised)
    \/ OnScheduledEventDelete(1)
    \/ Tick

SpecDelete == InitStatsFor({}) /\ [][NextDelete]_vars

(***************************************************************************)
(* ForumManager and the coroutines of the EventHandler                     *)
(***************************************************************************)
\* the events the forum posts are made for
ForumEvents == {1}

\* what event.users() yields, or that it raised
Enumerations ==
    {Enumerated(<< >>), Enumerated(<<1>>), Enumerated(<<1, 2>>), EnumerationFailed}

\* event.end_time and event.start_time of the events delivered
ForumEndTimes == {0, TickHours}

ForumStartTimes == {NoTime, 2 * TickHours}

\* participants[:20]
MaxMentions == 20

\* the most events delivered to the EventHandler
MaxNotifications == 2

\* the most tasks the handlers make the schedulers create
MaxForumTasks == 3

\* _format_participants: the mentions of the first 20 participants and how
\* many more there are; without participants "No participants yet"
FormatParticipants(participants) ==
    [mentions |-> SubSeq(participants, 1, IF Len(participants) > MaxMentions
                                          THEN MaxMentions ELSE Len(participants)),
     more |-> IF Len(participants) > MaxMentions THEN Len(participants) - MaxMentions ELSE 0]

\* the participant part of format_event_content: the count, then the
\* mentions of the first 20 and how many more there are
FormatEventContent(participants) ==
    [count |-> Len(participants), shown |-> FormatParticipants(participants)]

\* a forum post: created tells the posts create_thread made from the ones
\* find_existing_thread found
Thread(event, content, created) == [event |-> event, content |-> content, created |-> created]

\* self.cached_participants.get(event.id, [])
Cached(e) == IF e \in DOMAIN cached_participants THEN cached_participants[e] ELSE << >>

\* `if participants: self.cached_participants[event.id] = participants`
CachedWith(e, participants) ==
    IF participants # << >> THEN With(cached_participants, e, participants)
    ELSE cached_participants

\* the next event is handled by the first coroutine that is not running
Free(h) ==
    /\ handlers[h].at = "idle"
    /\ h = "h2" => handlers["h1"].at # "idle"
    /\ notifications.count < MaxNotifications

\* the notifications once one more is delivered: how many there were, whether
\* an event was delivered as created, and the end time of the event last
\* delivered as updated
Notified(op, end_time) ==
    [count |-> notifications.count + 1,
     created |-> notifications.created \/ op = "create",
     end_time |-> IF op = "update" THEN end_time ELSE notifications.end_time]

\* what the handler does once the forum call it awaited is over:
\* on_scheduled_event_create calls the schedulers when it got a thread,
\* on_scheduled_event_update calls schedule_archive, the others return
Continued(locals, thread) ==
    IF locals.op = "create"
    THEN OnScheduledEventCreate(locals.event, locals.end_time, locals.start_time, thread)
    ELSE IF locals.op = "update"
    THEN LET archive == ArchiveScheduled(tasks, scheduled_tasks, locals.event, locals.end_time)
         IN  [tasks |-> archive.tasks, scheduled_tasks |-> archive.table,
              reminder_tasks |-> reminder_tasks]
    ELSE Schedules

\* the handler runs to its end
Returns(h, locals, thread) ==
    /\ Len(Continued(locals, thread).tasks) <= MaxForumTasks
    /\ handlers' = [handlers EXCEPT ![h] = NoHandler]
    /\ tasks' = Continued(locals, thread).tasks
    /\ scheduled_tasks' = Continued(locals, thread).scheduled_tasks
    /\ reminder_tasks' = Continued(locals, thread).reminder_tasks

\* the handler suspends again
Suspends(h, locals) ==
    /\ handlers' = [handlers EXCEPT ![h] = locals]
    /\ UNCHANGED <<tasks, scheduled_tasks, reminder_tasks>>

\* on_scheduled_event_create up to get_event_participants: with a thread in
\* the mapping it returns at once
CreateBegun(h, e, start_time, end_time) ==
    /\ handlers' = [handlers EXCEPT ![h] =
                      IF e \in DOMAIN event_posts THEN NoHandler
                      ELSE HandlerLocals("create", "participants", e, start_time, end_time,
                                         << >>, EnumerationFailed, 0, FALSE)]
    /\ notifications' = Notified("create", end_time)
    /\ UNCHANGED <<cached_participants, reminder_message, schedVars, pc, statsVars, fightVars>>

\* on_scheduled_event_update up to get_event_participants, the name being the
\* same: a changed start time has the reminders cancelled and scheduled again
UpdateBegun(h, e, before_start, after_start, end_time) ==
    LET reminders == IF before_start # after_start
                     THEN RemindersScheduled(RemindersCancelled(e).tasks,
                                             RemindersCancelled(e).table, e, after_start)
                     ELSE [tasks |-> tasks, table |-> reminder_tasks]
    IN  /\ Len(reminders.tasks) <= MaxForumTasks
        /\ tasks' = reminders.tasks
        /\ reminder_tasks' = reminders.table
        /\ handlers' = [handlers EXCEPT ![h] =
                          HandlerLocals("update", "participants", e, after_start, end_time,
                                        << >>, EnumerationFailed, 0, FALSE)]
        /\ notifications' = Notified("update", end_time)
        /\ UNCHANGED <<cached_participants, reminder_message, utcnow, scheduled_tasks,
                       sched_error, noop_cancel, pc, statsVars, fightVars>>

\* the gateway delivers a created event
CreateDelivered(h, e, start_time, end_time) ==
    /\ Free(h)
    /\ CreateBegun(h, e, start_time, end_time)
    /\ UNCHANGED <<event_posts, threads>>

\* the gateway delivers an updated event
UpdateDelivered(h, e, before_start, after_start, end_time) ==
    /\ Free(h)
    /\ UpdateBegun(h, e, before_start, after_start, end_time)
    /\ UNCHANGED <<event_posts, threads>>

\* on_scheduled_event_user_add / on_scheduled_event_user_remove up to
\* get_event_participants
UserDelivered(h, e, op) ==
    /\ Free(h)
    /\ handlers' = [handlers EXCEPT ![h] =
                      HandlerLocals(op, "participants", e, NoTime, NoTime, << >>,
                                    EnumerationFailed, 0, FALSE)]
    /\ notifications' = Notified(op, NoTime)
    /\ UNCHANGED <<event_posts, threads, cached_participants, reminder_message, schedVars, pc,
                   statsVars, fightVars>>

\* process_existing_events for one event, after fetch_scheduled_events and
\* find_existing_thread: with a thread in the mapping, or one found by name
\* (it is put into the mapping), the event is handled as updated, with itself
\* as before and after; without one as created. shown: the participants the
\* post found shows
ProcessExisting(h, e, found, shown, start_time, end_time) ==
    /\ Free(h)
    /\ IF e \in DOMAIN event_posts
       THEN /\ UpdateBegun(h, e, start_time, start_time, end_time)
            /\ UNCHANGED <<event_posts, threads>>
       ELSE IF found
       THEN /\ UpdateBegun(h, e, start_time, start_time, end_time)
            /\ threads' = Append(threads, Thread(e, FormatEventContent(shown), FALSE))
            /\ event_posts' = With(event_posts, e, Len(threads) + 1)
       ELSE /\ CreateBegun(h, e, start_time, end_time)
            /\ UNCHANGED <<event_posts, threads>>

\* get_event_participants is over and the handler goes on to its next
\* suspension. on_scheduled_event_create calls create_forum_post, which hands
\* back the thread of the mapping when there is one by now, fails on
\* participants that are None, and otherwise caches the participants and
\* awaits create_thread. The other handlers replace None ([] after an update,
\* the cached list after a user add or remove) and call update_forum_post:
\* without a thread it calls create_forum_post; with one, an empty list is
\* replaced by the cached one, a list that is not empty is cached, and
\* thread.history is awaited. The forum channel exists.
ParticipantsReturned(h, result) ==
    LET locals == [handlers[h] EXCEPT !.enumerated = result]
        e == locals.event
        participants == IF result.ok THEN result.users
                        ELSE IF locals.op \in {"user_add", "user_remove"} THEN Cached(e)
                        ELSE << >>
        used == IF participants = << >> /\ e \in DOMAIN cached_participants
                THEN cached_participants[e] ELSE participants
    IN  /\ handlers[h].at = "participants"
        /\ IF locals.op = "create"
           THEN IF e \in DOMAIN event_posts
                THEN Returns(h, locals, TRUE) /\ UNCHANGED cached_participants
                ELSE IF ~result.ok
                THEN Returns(h, locals, FALSE) /\ UNCHANGED cached_participants
                ELSE /\ Suspends(h, [locals EXCEPT !.at = "create_thread",
                                                   !.participants = participants])
                     /\ cached_participants' = CachedWith(e, participants)
           ELSE IF e \notin DOMAIN event_posts
                THEN /\ Suspends(h, [locals EXCEPT !.at = "create_thread",
                                                   !.participants = participants])
                     /\ cached_participants' = CachedWith(e, participants)
                ELSE /\ Suspends(h, [locals EXCEPT !.at = "edit", !.participants = used,
                                                   !.thread = event_posts[e]])
                     /\ cached_participants' = CachedWith(e, participants)
        /\ UNCHANGED <<event_posts, threads, notifications, reminder_message, utcnow, sched_error,
                       noop_cancel, pc, statsVars, fightVars>>

\* forum_channel.create_thread is over: the thread is put into the mapping
\* and handed back; after an exception create_forum_post hands back None
ThreadCreated(h, ok) ==
    LET locals == handlers[h]
        thread == Len(threads) + 1
    IN  /\ locals.at = "create_thread"
        /\ IF ok
           THEN /\ threads' = Append(threads, Thread(locals.event,
                                                     FormatEventContent(locals.participants),
                                                     TRUE))
                /\ event_posts' = With(event_posts, locals.event, thread)
                /\ Returns(h, [locals EXCEPT !.created = TRUE, !.thread = thread], TRUE)
           ELSE /\ UNCHANGED <<threads, event_posts>>
                /\ Returns(h, locals, FALSE)
        /\ UNCHANGED <<cached_participants, notifications, reminder_message, utcnow, sched_error,
                       noop_cancel, pc, statsVars, fightVars>>

\* what thread.history and first_message.edit of update_forum_post come to
EditOutcomes == {"edited", "no_message", "error"}

\* thread.history and first_message.edit are over, nothing being written
\* between the two: the post shows the new content, or update_forum_post
\* returns False
PostEdited(h, outcome) ==
    LET locals == handlers[h]
    IN  /\ locals.at = "edit"
        /\ threads' = IF outcome = "edited"
                      THEN [threads EXCEPT ![locals.thread].content =
                                               FormatEventContent(locals.participants)]
                      ELSE threads
        /\ Returns(h, locals, TRUE)
        /\ UNCHANGED <<event_posts, cached_participants, notifications, reminder_message, utcnow,
                       sched_error, noop_cancel, pc, statsVars, fightVars>>

\* _send_reminder of the first reminder of the event, from
\* get_participants_func to channel.send: None counts as no participants
SendReminder(e, result) ==
    /\ reminder_message = NoMessage
    /\ reminder_message' = FormatParticipants(IF result.ok THEN result.users ELSE << >>)
    /\ UNCHANGED <<event_posts, cached_participants, threads, handlers, notifications, schedVars,
                   pc, statsVars, fightVars>>

\* events are delivered as created, by the gateway and by the pass over the
\* existing events at the start, and their posts are created
NextPosts ==
    \/ \E h \in Handlers, e \in ForumEvents, start_time \in ForumStartTimes :
          CreateDelivered(h, e, start_time, 0)
    \/ \E h \in Handlers, e \in ForumEvents, found \in BOOLEAN :
          ProcessExisting(h, e, found, <<1>>, NoTime, 0)
    \/ \E h \in Handlers, result \in Enumerations : ParticipantsReturned(h, result)
    \/ \E h \in Handlers, ok \in BOOLEAN : ThreadCreated(h, ok)
    \/ \E h \in Handlers, outcome \in EditOutcomes : PostEdited(h, outcome)

SpecPosts == InitStatsFor({}) /\ [][NextPosts]_vars

\* the events of posts found at the start are updated, users join and leave,
\* a reminder is sent
NextParticipants ==
    \/ \E h \in Handlers, e \in ForumEvents : ProcessExisting(h, e, TRUE, <<1>>, NoTime, 0)
    \/ \E h \in Handlers, e \in ForumEvents, end_time \in ForumEndTimes :
          UpdateDelivered(h, e, NoTime, NoTime, end_time)
    \/ \E h \in Handlers, e \in ForumEvents, op \in {"user_add", "user_remove"} :
          UserDelivered(h, e, op)
    \/ \E h \in Handlers, result \in Enumerations : ParticipantsReturned(h, result)
    \/ \E h \in Handlers, ok \in BOOLEAN : ThreadCreated(h, ok)
    \/ \E h \in Handlers, outcome \in EditOutcomes : PostEdited(h, outcome)
    \/ \E e \in ForumEvents, result \in Enumerations : SendReminder(e, result)

SpecParticipants == InitStatsFor({}) /\ [][NextParticipants]_vars

(***************************************************************************)
(* Properties of StatsManager.record_meal                                  *)
(***************************************************************************)
\* the step in which caller p's record_meal reads and rewrites the record
Recorded(p) == pc[p] # "saving" /\ pc'[p] = "saving"

\* the record stored for user u
Stored(u) == data[Key(u)]

HasRecord(u) == Key(u) \in DOMAIN data

\* calls for user u that wait for the lock
Waiting(u) == {p \in Callers : pc[p] = "waiting" /\ call[p].user = u}

C1_Rule ==
    \A p \in Callers : Recorded(p) =>
        LET u == call'[p].user
            D == call'[p].today
            new == data'[Key(u)].streak_current
        IN  IF ~HasRecord(u) THEN new = 1
            ELSE LET P == FromIsoFormat(Stored(u).last_post_date_utc)
                 IN  /\ D = NextDay(P) => new = Stored(u).streak_current + 1
                     /\ (D # NextDay(P) /\ D # P) => new = 1

C1_Case ==
    \A u \in Users : scenario[u] \in 1..4 =>
        /\ Stored(u).streak_current = <<1, 1, 2, 1>>[scenario[u]]
        /\ Stored(u).streak_best = <<1, 1, 2, 2>>[scenario[u]]

\* C1: record_meal sets streak_current to 1 without a prior record, to
\* streak_current + 1 when the new UTC date is the day after the stored date,
\* and to 1 for any other date different from the stored one (a gap, or an
\* earlier date); the dates 2025-01-01, 2025-01-01, 2025-01-02, 2025-01-04
\* give streak_current 1,1,2,1 and streak_best 1,1,2,2.
C1_StreakRule == []C1_Case /\ [][C1_Rule]_vars

C1_Witness == \E u \in Users : scenario[u] = 4 /\ Stored(u).streak_current = 1

\* C2: every stored record has streak_best >= streak_current, and no call
\* lowers a user's streak_best.
C2_BestBound ==
    /\ [](\A k \in DOMAIN data : data[k].streak_best >= data[k].streak_current)
    /\ [][\A k \in DOMAIN data : data'[k].streak_best >= data[k].streak_best]_vars

\* calls on non-decreasing dates after which the best streak exceeds the current one
C2_Witness ==
    \E u \in Users : scenario[u] = 4 /\ Stored(u).streak_best > Stored(u).streak_current

\* C3: a call whose UTC date equals the stored last date leaves streak_current
\* as it was.
C3_SameDay ==
    [][\A p \in Callers : Recorded(p) =>
          LET u == call'[p].user
          IN  (HasRecord(u) /\ Stored(u).last_post_date_utc = IsoFormat(call'[p].today))
              => data'[Key(u)].streak_current = Stored(u).streak_current]_vars

\* a second call on the day of the first one has been recorded
C3_Witness == \E u \in Users : scenario[u] = 2 /\ Stored(u).count = 2

\* C4: every call adds exactly 1 to the user's count: the count is the number
\* of calls recorded for the user, and it never decreases.
C4_Count ==
    /\ [](\A u \in Users :
            (IF HasRecord(u) THEN Stored(u).count ELSE 0)
                = started[u] - Cardinality(Waiting(u)))
    /\ [][/\ \A p \in Callers : Recorded(p) =>
               data'[Key(call'[p].user)].count
                   = (IF HasRecord(call'[p].user) THEN Stored(call'[p].user).count ELSE 0) + 1
          /\ \A k \in DOMAIN data : k \in DOMAIN data' /\ data'[k].count >= data[k].count]_vars

C4_Witness == \E u \in Users : started[u] = 3 /\ HasRecord(u) /\ Stored(u).count = 3

(***************************************************************************)
(* Properties of overlapping record_meal and record_dish calls             *)
(***************************************************************************)
\* no record_meal call is in flight
StatsIdle == \A p \in Callers : pc[p] \notin {"waiting", "saving"}

\* no FoodFightManager call is in flight
FightsIdle == \A p \in Callers : pc[p] \notin {"start_waiting", "dish_waiting", "ff_saving"}

\* the step in which caller p's record_dish counts a dish
DishCounted(p) ==
    pc[p] # "ff_saving" /\ pc'[p] = "ff_saving" /\ ff_call'[p].fight_id = None

\* the dishes counted for user w in a fight, 0 without a counter
Dishes(fight, w) ==
    IF DictHas(fight.dishes_counted, w) THEN DictGet(fight.dishes_counted, w) ELSE 0

\* the fight started at or before the instant t
StartedBy(fight, t) ==
    \E n \in FightNows :
        /\ IsoFormatDT(UtcInstant(n)) = fight.start_time
        /\ ~Before(UtcInstant(t), UtcInstant(n))

C5_NoLostMeal ==
    \A u \in Users :
        (IF HasRecord(u) THEN Stored(u).count ELSE 0) = started[u] - Cardinality(Waiting(u))

C5_Persisted ==
    /\ (StatsIdle /\ ~write_error) =>
          IF CallsMade = ff_calls THEN file = NoFile /\ data = << >>
          ELSE file = <<Dumps(data)>>
    /\ (FightsIdle /\ ~ff_write_error) =>
          \/ ff_file = NoFile /\ active_fights = << >>
          \/ ff_file = <<FightsDumps(active_fights)>>

C5_Steps ==
    /\ \A p \in Callers : Recorded(p) =>
          \A k \in DOMAIN data : k # Key(call'[p].user) => data'[k] = data[k]
    /\ (\A p \in Callers : ~Recorded(p)) => data' = data
    /\ \A p \in Callers : DishCounted(p) =>
          /\ Len(active_fights') = Len(active_fights)
          /\ \A i \in DOMAIN active_fights :
                LET old == active_fights[i].v
                    new == active_fights'[i].v
                    u == ff_call'[p].user_id
                IN  /\ active_fights'[i].k = active_fights[i].k
                    /\ new.team_assignments = old.team_assignments
                    /\ \A w \in Users \ {u} : Dishes(new, w) = Dishes(old, w)
                    /\ Dishes(new, u) =
                          Dishes(old, u)
                          + (IF DictHas(old.team_assignments, u)
                                /\ StartedBy(old, ff_call'[p].time) THEN 1 ELSE 0)
    /\ (\A p \in Callers : pc'[p] = "ff_saving" => pc[p] = "ff_saving")
          => active_fights' = active_fights

\* C5: overlapping record_meal calls, and overlapping record_dish calls, leave
\* the state a sequential execution leaves: every call adds its own 1 to the
\* count (dish counter) of its user on top of the value the call before left,
\* no call changes another user's record, and once the calls have returned
\* the file holds the state in memory when no write failed.
C5_Serialized == []C5_NoLostMeal /\ []C5_Persisted /\ [][C5_Steps]_vars

\* two record_dish calls for one user overlap: one writes the file, the
\* other waits for the lock
C5_Witness ==
    \E p, q \in Callers :
        /\ pc[p] = "ff_saving" /\ ff_call[p].fight_id = None
        /\ pc[q] = "dish_waiting"
        /\ ff_call[q].user_id = ff_call[p].user_id
        /\ \E i \in DOMAIN active_fights :
              Dishes(active_fights[i].v, ff_call[p].user_id) = 1

(***************************************************************************)
(* Properties of ArchiveScheduler and ReminderScheduler                    *)
(***************************************************************************)
\* the tasks that run _archive_task_delayed
DelayedIds == {t \in DOMAIN tasks : tasks[t].kind = "archive_delayed"}

\* the step in which task t begins the archive action (_archive_task)
ActionBegins(t) ==
    /\ tasks[t].state \in {"sleeping", "ready"}
    /\ tasks'[t].state \in {"archiving", "done"}

\* the delay of task t has elapsed: now is at or after end_time + delay
DelayElapsed(t) == utcnow >= tasks[t].time + ArchiveDelayHours

\* task t sleeps although its delay has elapsed
Overdue(t) ==
    IF t \in DelayedIds THEN tasks[t].state = "sleeping" /\ DelayElapsed(t) ELSE FALSE

\* task t has begun the archive action, or was cancelled
Begun(t) ==
    IF t \in DelayedIds THEN tasks[t].state \in {"archiving", "done", "cancelled"} ELSE FALSE

C6_NotEarly == \A t \in DelayedIds : ActionBegins(t) => DelayElapsed(t)

C6_Once ==
    \A t \in DelayedIds : tasks[t].state # "sleeping" => tasks'[t].state # "sleeping"

\* C6: the task of a schedule_archive call with a future archive time begins
\* the archive action only when the delay has elapsed, begins it at most once
\* (a task that left its sleep never sleeps again), and, once the delay has
\* elapsed, does begin it unless it was cancelled.
C6_DelayedRun ==
    /\ [][C6_NotEarly /\ C6_Once]_vars
    /\ \A t \in TaskIds : Overdue(t) ~> Begun(t)

\* a delayed task runs the archive action, its delay elapsed
C6_Witness ==
    \E t \in DelayedIds : tasks[t].state = "archiving" /\ DelayElapsed(t)

\* C7: a schedule_archive call whose archive time is at or before now starts
\* the archive action at once (a new task running _archive_task) and leaves
\* no entry for the event in scheduled_tasks, whatever the table held before.
C7_OverdueLeavesNoEntry ==
    [][\A e \in EventIds, end_time \in EndTimes :
          (end_time # NoTime /\ end_time + ArchiveDelayHours <= utcnow
             /\ ScheduleArchive(e, end_time))
          => /\ Len(tasks') = Len(tasks) + 1
             /\ tasks'[Len(tasks')].kind = "archive_now"
             /\ tasks'[Len(tasks')].event = e
             /\ e \notin DOMAIN scheduled_tasks']_vars

\* the first task of event e has not fired: it sleeps (archive), they all
\* sleep (reminders)
ArchivePending(e) ==
    e \in DOMAIN scheduled_tasks /\ tasks[scheduled_tasks[e]].state = "sleeping"

RemindersPending(e) ==
    e \in DOMAIN reminder_tasks
       /\ \A i \in DOMAIN reminder_tasks[e] : tasks[reminder_tasks[e][i]].state = "sleeping"

C8_Archive ==
    \A e \in EventIds, end_time \in EndTimes :
        (ArchivePending(e) /\ ScheduleArchive(e, end_time))
        => /\ tasks'[scheduled_tasks[e]].state = "cancelled"
           /\ e \in DOMAIN scheduled_tasks' => scheduled_tasks'[e] # scheduled_tasks[e]

C8_Reminders ==
    \A e \in EventIds, start_time \in StartTimes :
        (RemindersPending(e) /\ ScheduleReminders(e, start_time))
        => \A i \in DOMAIN reminder_tasks[e] :
              /\ tasks'[reminder_tasks[e][i]].state = "cancelled"
              /\ e \in DOMAIN reminder_tasks' =>
                    \A j \in DOMAIN reminder_tasks'[e] :
                        reminder_tasks'[e][j] # reminder_tasks[e][i]

C8_CancelledNeverRuns ==
    \A t \in DOMAIN tasks : tasks[t].state = "cancelled" => tasks'[t].state = "cancelled"

\* C8: a second schedule_archive (schedule_reminders) call for an event whose
\* first task has not fired cancels the first call's task(s), a cancelled
\* task never runs, and the entry of the event after the call is not a task
\* of the first call.
C8_Rescheduled == [][C8_Archive /\ C8_Reminders /\ C8_CancelledNeverRuns]_vars

\* the delayed archive tasks of event e that are neither cancelled nor over
PendingDelayed(e) ==
    {t \in DelayedIds : tasks[t].event = e /\ ~Finished(tasks[t])}

\* C9: every event id has at most one pending delayed archive task, and
\* scheduled_tasks records that task under the event id.
C9_OnePendingRecorded ==
    \A e \in EventIds :
        /\ Cardinality(PendingDelayed(e)) <= 1
        /\ \A t \in PendingDelayed(e) :
              e \in DOMAIN scheduled_tasks /\ scheduled_tasks[e] = t

\* C10: cancel_archive and cancel_reminders for an event id without an entry
\* do not raise and leave the table, and every task, as they were.
C10_MissingIdIgnored ==
    [][\A e \in EventIds :
          /\ (e \notin DOMAIN scheduled_tasks /\ CancelArchive(e))
             => ~sched_error' /\ scheduled_tasks' = scheduled_tasks /\ tasks' = tasks
          /\ (e \notin DOMAIN reminder_tasks /\ CancelReminders(e))
             => ~sched_error' /\ reminder_tasks' = reminder_tasks /\ tasks' = tasks]_vars

\* cancel_archive was just called for an id without an entry while the
\* tables hold entries of another event
C10_Witness ==
    /\ noop_cancel = "cancel_archive"
    /\ scheduled_tasks # << >>
    /\ reminder_tasks # << >>

\* the entries of the events other than e are the same before and after
OthersKept(e) ==
    /\ DOMAIN scheduled_tasks' \ {e} = DOMAIN scheduled_tasks \ {e}
    /\ \A k \in DOMAIN scheduled_tasks \ {e} : scheduled_tasks'[k] = scheduled_tasks[k]

C11_Cancel ==
    \A e \in EventIds :
        (ArchivePending(e) /\ CancelArchive(e))
        => /\ tasks'[scheduled_tasks[e]].state = "cancelled"
           /\ e \notin DOMAIN scheduled_tasks'
           /\ OthersKept(e)

C11_NeverRuns ==
    \A t \in DelayedIds :
        tasks[t].state = "cancelled" => tasks'[t].state = "cancelled" /\ ~ActionBegins(t)

\* C11: cancel_archive for an event whose entry holds a task still waiting
\* cancels that task and removes the entry, leaves the entries of the other
\* events as they were, and a cancelled task never begins the archive action.
C11_CancelWaiting == [][C11_Cancel /\ C11_NeverRuns]_vars

\* a delayed task was cancelled by cancel_archive (no immediate task exists),
\* its archive time has come, and the entry of another event is in the table
C11_Witness ==
    \E t \in DelayedIds :
        /\ tasks[t].state = "cancelled"
        /\ DelayElapsed(t)
        /\ tasks[t].event \notin DOMAIN scheduled_tasks
        /\ scheduled_tasks # << >>
        /\ \A u \in DOMAIN tasks : tasks[u].kind = "archive_delayed"

\* the tasks archive_immediately created: they run _archive_task for an
\* event taken as it is, whatever its end_time
ImmediateIds == {t \in DOMAIN tasks : tasks[t].kind = "archive_now" /\ tasks[t].time = NoTime}

\* the entry of event e holds a task that is neither cancelled nor over
LiveEntry(table, ts, e) == e \in DOMAIN table /\ ~Finished(ts[table[e]])

\* the step in which task t ends
Ends(t) == ~Finished(tasks[t]) /\ Finished(tasks'[t])

C12_Call ==
    \A e \in EventIds :
        ArchiveImmediately(e)
        => /\ e \in DOMAIN scheduled_tasks => Finished(tasks'[scheduled_tasks[e]])
           /\ ArchivePending(e) => tasks'[scheduled_tasks[e]].state = "cancelled"
           /\ e \notin DOMAIN scheduled_tasks'
           /\ Len(tasks') = Len(tasks) + 1
           /\ tasks'[Len(tasks')].kind = "archive_now"
           /\ tasks'[Len(tasks')].event = e
           /\ tasks'[Len(tasks')].state = "ready"

C12_NeverRuns ==
    \A t \in DelayedIds : tasks[t].state = "cancelled" => ~ActionBegins(t)

C12_NoLiveEntry ==
    \A t \in ImmediateIds :
        Ends(t) => ~LiveEntry(scheduled_tasks', tasks', tasks[t].event)

C12_NoOlderEntry ==
    \A t \in ImmediateIds :
        Ends(t) => (LiveEntry(scheduled_tasks', tasks', tasks[t].event)
                       => scheduled_tasks'[tasks[t].event] > t)

EndsQuietly(t) ==
    \/ \E found \in BOOLEAN : ArchiveWake(t, found) /\ tasks'[t].state = "done"
    \/ \E outcome \in ArchiveOutcomes : ~Raises(outcome) /\ ArchiveFinish(t, outcome)

\* C13: when a delayed archive task's wait is over and its archive action
\* ends without raising (post archived or not, archive category found or
\* not), scheduled_tasks holds no entry for the task's event.
C13_EntryGone ==
    [][\A t \in DelayedIds :
          EndsQuietly(t) => tasks[t].event \notin DOMAIN scheduled_tasks']_vars

\* the step in which the archive action of task t ends with an exception
EndsRaising(t) ==
    \E outcome \in ArchiveOutcomes : Raises(outcome) /\ ArchiveFinish(t, outcome)

\* C14: when the archive action of a delayed task raises, the task ends (the
\* error is swallowed, the action does not start again) and scheduled_tasks
\* holds no entry for the task's event.
C14_RaisedEntryGone ==
    [][\A t \in DelayedIds :
          /\ EndsRaising(t) =>
                /\ tasks'[t].state = "done"
                /\ tasks[t].event \notin DOMAIN scheduled_tasks'
          /\ tasks[t].state = "done" => tasks'[t].state = "done"]_vars

\* the step in which the action of task t meets a failure: the archive
\* category or the reminder channel is missing, or a call it awaits raises
MeetsFailure(t) ==
    \/ ArchiveWake(t, FALSE)
    \/ ArchiveStart(t, FALSE)
    \/ EndsRaising(t)
    \/ ReminderWake(t, FALSE)
    \/ ReminderFetched(t, TRUE)
    \/ ReminderSent(t, TRUE)

C15_Returns == \A t \in DOMAIN tasks : MeetsFailure(t) => tasks'[t].state = "done"

C15_NoneFailed == \A t \in DOMAIN tasks : tasks[t].state # "failed"

\* C15: no exception of an archive or reminder action escapes its task: the
\* step in which the action meets a failure ends the task normally, no task
\* is ever ended by an exception, and no scheduler call raises.
C15_NoEscape == [](C15_NoneFailed /\ ~sched_error) /\ [][C15_Returns]_vars

\* a delayed archive task is over and its entry is still in the table: its
\* action met a failure (no archive category, or a call raised)
C15_Witness ==
    \E t \in DelayedIds :
        /\ tasks[t].state = "done"
        /\ tasks[t].event \in DOMAIN scheduled_tasks
        /\ scheduled_tasks[tasks[t].event] = t

\* C16: a delayed task whose archive action has started and is suspended
\* inside it is not stopped by a cancel: whatever call is made, the action
\* goes on until it ends normally, and no call raises.
C16_StartedActionCompletes ==
    [][\A t \in DelayedIds :
          tasks[t].state = "archiving"
          => tasks'[t].state \in {"archiving", "done"} /\ ~sched_error']_vars

\* the reminder tasks
ReminderIds == {t \in DOMAIN tasks : tasks[t].kind = "reminder"}

\* C17: the reminder scheduler holds an entry for an event only while some
\* task of the entry is pending: once every task of it has fired and is over,
\* the entry is gone.
C17_EntryOnlyWhilePending ==
    \A e \in DOMAIN reminder_tasks :
        \E i \in DOMAIN reminder_tasks[e] : ~Finished(tasks[reminder_tasks[e][i]])

\* the instant of an offset is strictly after now
Ahead(start_time, offset) == start_time # NoTime /\ start_time - offset > utcnow

\* the tasks a step creates
Created == (DOMAIN tasks') \ (DOMAIN tasks)

\* the tasks a step creates for the offset: pending reminder tasks of event
\* e that wake at start_time - offset
CreatedFor(e, start_time, offset) ==
    {t \in Created :
        /\ tasks'[t].kind = "reminder" /\ tasks'[t].event = e
        /\ tasks'[t].offset = offset /\ tasks'[t].wake_at = start_time - offset
        /\ tasks'[t].state = "sleeping"}

C18_Step ==
    \A e \in EventIds, start_time \in StartTimes :
        ScheduleReminders(e, start_time)
        => /\ \A i \in DOMAIN ReminderTimes :
                 LET made == CreatedFor(e, start_time, ReminderTimes[i])
                 IN  IF Ahead(start_time, ReminderTimes[i])
                     THEN /\ Cardinality(made) = 1
                          /\ e \in DOMAIN reminder_tasks'
                          /\ \A t \in made :
                                \E j \in DOMAIN reminder_tasks'[e] : reminder_tasks'[e][j] = t
                     ELSE \A t \in Created : tasks'[t].offset # ReminderTimes[i]
           /\ Cardinality(Created)
                 = Cardinality({i \in DOMAIN ReminderTimes : Ahead(start_time, ReminderTimes[i])})
           /\ (\A i \in DOMAIN ReminderTimes : ~Ahead(start_time, ReminderTimes[i]))
                 => e \notin DOMAIN reminder_tasks'

\* C18: schedule_reminders creates exactly one pending task for every offset
\* whose instant start_time - offset is strictly after now and none for the
\* other offsets; when no offset qualifies, or the event has no start time,
\* the event has no entry afterwards.
C18_OneTaskPerFutureOffset == [][C18_Step]_vars

\* an event was scheduled with one offset ahead and one not: its entry holds
\* the one pending task of the 12 h offset, and no task has the 24 h offset
C18_Witness ==
    \E e \in DOMAIN reminder_tasks :
        /\ Len(reminder_tasks[e]) = 1
        /\ tasks[reminder_tasks[e][1]].offset = ReminderTimes[2]
        /\ tasks[reminder_tasks[e][1]].state = "sleeping"
        /\ \A t \in DOMAIN tasks : tasks[t].offset # ReminderTimes[1]

\* the tasks in the entry of event e
Listed(e) == {reminder_tasks[e][i] : i \in DOMAIN reminder_tasks[e]}

C19_Cancel ==
    \A e \in DOMAIN reminder_tasks :
        CancelReminders(e)
        => /\ \A t \in Listed(e) :
                 /\ Finished(tasks'[t])
                 /\ ~Finished(tasks[t]) => tasks'[t].state = "cancelled"
           /\ e \notin DOMAIN reminder_tasks'

C19_NeverSends ==
    \A t \in ReminderIds : tasks[t].state = "cancelled" => tasks'[t].state = "cancelled"

\* every reminder task that can still send is in the entry of its event
C19_Reachable ==
    \A t \in ReminderIds :
        ~Finished(tasks[t])
        => tasks[t].event \in DOMAIN reminder_tasks /\ t \in Listed(tasks[t].event)

\* C19: cancel_reminders cancels every pending task in the event's entry and
\* removes the entry; the entry holds every task of the event that can still
\* send, and a cancelled task never sends.
C19_CancelsAll == []C19_Reachable /\ [][C19_Cancel /\ C19_NeverSends]_vars

\* both reminder tasks of an event were cancelled together, their instants
\* have come, and the event has no entry
C19_Witness ==
    \E t, u \in ReminderIds :
        /\ t # u
        /\ tasks[t].event = tasks[u].event
        /\ tasks[t].state = "cancelled" /\ tasks[u].state = "cancelled"
        /\ utcnow >= tasks[t].wake_at /\ utcnow >= tasks[u].wake_at
        /\ tasks[t].event \notin DOMAIN reminder_tasks

\* the step in which task t calls channel.send
Sends(t) == tasks[t].state # "sending" /\ tasks'[t].state = "sending"

\* C20: no reminder is sent at or after the start of its event: whenever a
\* reminder task calls channel.send, now is before the event's start_time.
C20_NeverSentAfterStart ==
    [][\A t \in ReminderIds : Sends(t) => utcnow < tasks[t].time]_vars

\* C21: after schedule_archive for an event without end time, scheduled_tasks
\* holds no entry for the event, whatever the table held before.
C21_NoEndTimeNoEntry ==
    [][\A e \in EventIds :
          ScheduleArchive(e, NoTime) => e \notin DOMAIN scheduled_tasks']_vars

\* a pending reminder task of event e for the offset is listed in
\* reminder_tasks after the step
ReminderListed(e, start_time, offset) ==
    /\ e \in DOMAIN reminder_tasks'
    /\ \E i \in DOMAIN reminder_tasks'[e] :
          LET task == tasks'[reminder_tasks'[e][i]]
          IN  /\ task.kind = "reminder" /\ task.event = e /\ task.offset = offset
              /\ task.wake_at = start_time - offset /\ task.state = "sleeping"

\* a pending delayed archive task of event e is recorded in scheduled_tasks
\* after the step
ArchiveListed(e, end_time) ==
    /\ e \in DOMAIN scheduled_tasks'
    /\ LET task == tasks'[scheduled_tasks'[e]]
       IN  /\ task.kind = "archive_delayed" /\ task.event = e
           /\ task.wake_at = ArchiveTime(end_time) /\ task.state = "sleeping"

\* C22: process_existing_events, when the forum calls succeed, leaves for every
\* existing event a pending archive task if its archive time is ahead and a
\* pending reminder task for every configured offset still ahead, whether or
\* not a forum post for the event exists.
C22_RestartReschedules ==
    [][\A e \in EventIds, end_time \in EndTimes, start_time \in StartTimes, thread \in BOOLEAN :
          ProcessExistingEvent(e, end_time, start_time, thread, TRUE)
          => /\ (end_time # NoTime /\ ArchiveTime(end_time) > utcnow)
                   => ArchiveListed(e, end_time)
             /\ \A i \in DOMAIN ReminderTimes :
                   Ahead(start_time, ReminderTimes[i])
                   => ReminderListed(e, start_time, ReminderTimes[i])]_vars

(***************************************************************************)
(* Properties of the FoodFightManager                                      *)
(***************************************************************************)
\* the step in which caller p's start_food_fight runs under the lock
StartsFight(p, fight_id) ==
    /\ pc[p] \in {"idle", "start_waiting"} /\ pc'[p] = "ff_saving"
    /\ ff_result'.op = "start" /\ ff_result'.fight_id = fight_id

\* C23: start_food_fight for a fight id that has an open fight leaves the open
\* fight, its assignments and counters, as they were.
C23_DuplicateStartRejected ==
    [][\A p \in Callers, fight_id \in FightIds :
          (StartsFight(p, fight_id) /\ DictHas(active_fights, fight_id))
          => DictGet(active_fights', fight_id) = DictGet(active_fights, fight_id)]_vars

\* every fight the manager holds, open or completed
AllFights == active_fights \o completed_fights

\* C24: in every open or completed fight every key of dishes_counted is a key
\* of team_assignments and every value of team_assignments is one of the
\* fight's valid_emojis.
C24_CountersOfParticipants ==
    \A i \in DOMAIN AllFights :
        LET fight == AllFights[i].v
        IN  /\ DictKeys(fight.dishes_counted) \subseteq DictKeys(fight.team_assignments)
            /\ \A j \in DOMAIN fight.team_assignments :
                  InList(fight.team_assignments[j].v, fight.valid_emojis)

\* record_dish has run for a user who is not in an open fight
C24_Witness ==
    /\ ff_result.op = "record_dish"
    /\ \E i \in DOMAIN active_fights :
          ~DictHas(active_fights[i].v.team_assignments, ff_result.user_id)
    /\ \E i \in DOMAIN active_fights :
          \E j \in DOMAIN active_fights[i].v.dishes_counted :
             active_fights[i].v.dishes_counted[j].v > 0

\* hours since the start of the month, in UTC, of a local time
AbsHours(now) == now.date.d * 24 + now.hour - now.off

\* hours since the start of the month of the instant an ISO string names
IsoHours(s) == FromIsoFormatDT(s).date.d * 24 + FromIsoFormatDT(s).hour

\* the user's counter in the fight
Count(fight, user_id) ==
    IF DictHas(fight.dishes_counted, user_id) THEN DictGet(fight.dishes_counted, user_id) ELSE 0

\* the user is assigned in the fight and the time is not before its start
Qualifies(fight, user_id, dish_time) ==
    /\ user_id \in DictKeys(fight.team_assignments)
    /\ AbsHours(dish_time) >= IsoHours(fight.start_time)

C25_Effect(user_id, dish_time) ==
    /\ Len(active_fights') = Len(active_fights)
    /\ completed_fights' = completed_fights
    /\ \A i \in DOMAIN active_fights :
          LET before == active_fights[i].v
              after == active_fights'[i].v
          IN  /\ active_fights'[i].k = active_fights[i].k
              /\ IF Qualifies(before, user_id, dish_time)
                 THEN /\ [after EXCEPT !.dishes_counted = before.dishes_counted] = before
                      /\ DictKeys(after.dishes_counted) = DictKeys(before.dishes_counted)
                      /\ \A u \in Users :
                            Count(after, u) = Count(before, u) + (IF u = user_id THEN 1 ELSE 0)
                      /\ InList(active_fights[i].k, ff_result'.counted)
                 ELSE /\ after = before
                      /\ ~InList(active_fights[i].k, ff_result'.counted)
    /\ Len(ff_result'.counted) =
          Cardinality({i \in DOMAIN active_fights :
                          Qualifies(active_fights[i].v, user_id, dish_time)})

\* C25: record_dish(user, t) adds exactly 1 to the user's counter in every open
\* fight where the user is assigned and t >= start_time, returns the ids of
\* exactly those fights and leaves every other counter and fight unchanged.
C25_CountsOncePerFight ==
    [][\A p \in Callers, u \in Users, t \in FightNows :
          (ff_lock = None /\ RecordDishCall(p, u, t)) => C25_Effect(u, t)]_vars

\* a dish logged at the very start time of one open fight has been counted
\* in two fights
C25_Witness ==
    \E p \in Callers :
        /\ pc[p] = "ff_saving" /\ ff_result.op = "record_dish"
        /\ Len(ff_result.counted) = 2
        /\ \E i \in DOMAIN active_fights :
              /\ active_fights[i].v.start_time = IsoFormatDT(UtcInstant(ff_call[p].time))
              /\ Count(active_fights[i].v, ff_call[p].user_id) = 1

C26_Effect(p, fight_id, end_time) ==
    IF ~DictHas(active_fights, fight_id)
    THEN /\ ~ff_result'.found
         /\ pc'[p] = "idle"
         /\ UNCHANGED <<active_fights, completed_fights, ff_file>>
    ELSE /\ ff_result'.found
         /\ ~DictHas(active_fights', fight_id)
         /\ DictHas(completed_fights', fight_id)
         /\ LET before == DictGet(active_fights, fight_id)
                after == DictGet(completed_fights', fight_id)
            IN  /\ before.end_time = None
                /\ after.end_time = IsoFormatDT(end_time)
                /\ after.end_time # None
                /\ [after EXCEPT !.end_time = None] = before
         /\ \A other \in FightIds \ {fight_id} :
               /\ DictHas(active_fights', other) <=> DictHas(active_fights, other)
               /\ DictHas(active_fights, other)
                     => DictGet(active_fights', other) = DictGet(active_fights, other)
               /\ DictHas(completed_fights', other) <=> DictHas(completed_fights, other)
               /\ DictHas(completed_fights, other)
                     => DictGet(completed_fights', other) = DictGet(completed_fights, other)

\* C26: end_food_fight on an open fight moves it to the completed fights and
\* stamps end_time; on an id without an open fight it returns None and changes
\* nothing, so a second end of a completed fight leaves its end_time alone.
C26_EndMovesOnce ==
    [][\A p \in Callers, fight_id \in FightIds, t \in FightNows :
          EndFoodFightCall(p, fight_id, UtcInstant(t))
          => C26_Effect(p, fight_id, UtcInstant(t))]_vars

\* a second end_food_fight of a completed fight has returned None
C26_Witness ==
    /\ ff_result.op = "end" /\ ~ff_result.found
    /\ DictHas(completed_fights, ff_result.fight_id)
    /\ DictGet(completed_fights, ff_result.fight_id).end_time # None

\* C27: under start_food_fight, record_dish and end_food_fight a completed
\* fight keeps its record, end_time included, and the tallies reported for its
\* id stay the same.
C27_CompletedImmutable ==
    [][ff_result'.op \in {"start", "record_dish", "end"}
       => \A fight_id \in DictKeys(completed_fights) :
             /\ DictHas(completed_fights', fight_id)
             /\ DictGet(completed_fights', fight_id) = DictGet(completed_fights, fight_id)
             /\ GetTallies(active_fights', completed_fights', fight_id)
                   = GetTallies(active_fights, completed_fights, fight_id)]_vars

\* the fight get_tallies(fight_id) is about
Looked(fight_id) ==
    IF DictHas(active_fights, fight_id) THEN DictGet(active_fights, fight_id)
    ELSE DictGet(completed_fights, fight_id)

\* the users assigned to the team
Members(fight, emoji) ==
    {u \in DictKeys(fight.team_assignments) : DictGet(fight.team_assignments, u) = emoji}

C28_Effect(fight_id) ==
    /\ ff_result'.found <=> (fight_id \in DictKeys(active_fights) \cup DictKeys(completed_fights))
    /\ ff_result'.found =>
          LET fight == Looked(fight_id)
              teams == ff_result'.tallies.teams
          IN  /\ DictKeys(teams) = {fight.valid_emojis[i] : i \in DOMAIN fight.valid_emojis}
              /\ Len(teams) = Len(fight.valid_emojis)
              /\ \A emoji \in DictKeys(teams) :
                    LET team == DictGet(teams, emoji)
                        members == Members(fight, emoji)
                    IN  /\ team.total_dishes = Sum([u \in members |-> Count(fight, u)], members)
                        /\ Len(team.participants) = Cardinality(members)
                        /\ {team.participants[j].user_id : j \in DOMAIN team.participants}
                              = members
                        /\ \A j \in DOMAIN team.participants :
                              team.participants[j].dishes
                                 = Count(fight, team.participants[j].user_id)

\* C28: get_tallies finds open and completed fights and reports, for every
\* team in valid_emojis, the sum of the counters of the users assigned to it
\* and one participant entry per such user; a team without users has total 0
\* and no participants; an unknown id is not found.
C28_TalliesPerTeam ==
    [][\A p \in Callers, fight_id \in FightIds :
          GetTalliesCall(p, fight_id) => C28_Effect(fight_id)]_vars

\* the tallies of a completed fight with a team nobody is assigned to
C28_Witness ==
    /\ ff_result.op = "get_tallies" /\ ff_result.found
    /\ ~DictHas(active_fights, ff_result.fight_id)
    /\ DictHas(completed_fights, ff_result.fight_id)
    /\ \E i \in DOMAIN ff_result.tallies.teams :
          /\ ff_result.tallies.teams[i].v.participants = << >>
          /\ ff_result.tallies.teams[i].v.total_dishes = 0
    /\ \E i \in DOMAIN ff_result.tallies.teams :
          ff_result.tallies.teams[i].v.participants # << >>

\* the place of x in a list
Index(list, x) == CHOOSE i \in DOMAIN list : list[i] = x

\* the place of key k in a dict
KeyIndex(d, k) == CHOOSE i \in DOMAIN d : d[i].k = k

C29_Effect(fight_id) ==
    ff_result'.found =>
       LET fight == Looked(fight_id)
           teams == ff_result'.tallies.teams
           ranked == ff_result'.team_results
           details == ff_result'.details
       IN  /\ Len(ranked) = Len(teams) /\ Len(details) = Len(teams)
           /\ {ranked[i].emoji : i \in DOMAIN ranked} = DictKeys(teams)
           /\ \A i \in DOMAIN ranked :
                 /\ ranked[i].total = DictGet(teams, ranked[i].emoji).total_dishes
                 /\ details[i].k = ranked[i].emoji
                 /\ Len(details[i].v) = Len(DictGet(teams, ranked[i].emoji).participants)
                 /\ \A a \in DOMAIN details[i].v :
                       InList(details[i].v[a], DictGet(teams, ranked[i].emoji).participants)
                 /\ \A a, b \in DOMAIN details[i].v :
                       a < b =>
                          \/ details[i].v[a].dishes > details[i].v[b].dishes
                          \/ /\ details[i].v[a].dishes = details[i].v[b].dishes
                             /\ KeyIndex(fight.team_assignments, details[i].v[a].user_id)
                                   < KeyIndex(fight.team_assignments, details[i].v[b].user_id)
           /\ \A i, j \in DOMAIN ranked :
                 i < j =>
                    \/ ranked[i].total > ranked[j].total
                    \/ /\ ranked[i].total = ranked[j].total
                       /\ Index(fight.valid_emojis, ranked[i].emoji)
                             < Index(fight.valid_emojis, ranked[j].emoji)

\* C29: the results made of the tallies rank the teams by total, descending,
\* and the participants of each team by their count, descending; entries of
\* equal count keep the order of valid_emojis and of team_assignments.
C29_RankedStable ==
    [][\A p \in Callers, fight_id \in FightIds :
          GetTalliesCall(p, fight_id) => C29_Effect(fight_id)]_vars

\* two participants of one team with the same count are listed in the order
\* they were assigned in, which is not the order of their ids
C29_Witness ==
    /\ ff_result.op = "get_tallies" /\ ff_result.found
    /\ \E i \in DOMAIN ff_result.details :
          LET participants == ff_result.details[i].v
          IN  /\ Len(participants) = 2
              /\ participants[1].dishes = participants[2].dishes
              /\ participants[1].user_id > participants[2].user_id

\* whether the fight id is open, and whether it is completed
Status(active, completed, fight_id) ==
    [open |-> DictHas(active, fight_id), completed |-> DictHas(completed, fight_id)]

\* C30: when no write has failed, a fresh manager loaded from the file reports
\* for every fight id the same status, open or completed, and the same tallies
\* as the manager that wrote the file.
C30_RoundTrip ==
    [][(Load /\ ~ff_write_error)
       => \A fight_id \in FightIds :
             /\ Status(active_fights', completed_fights', fight_id)
                   = Status(active_fights, completed_fights, fight_id)
             /\ GetTallies(active_fights', completed_fights', fight_id)
                   = GetTallies(active_fights, completed_fights, fight_id)]_vars

\* a manager has been loaded from a file that holds a fight with a counted dish
C30_Witness ==
    /\ ff_result.op = "load" /\ ~ff_write_error
    /\ \E i \in DOMAIN AllFights :
          \E j \in DOMAIN AllFights[i].v.dishes_counted :
             AllFights[i].v.dishes_counted[j].v > 0

\* the fights a manager loaded from the file would hold
Persisted(f) ==
    IF f = NoFile THEN [active |-> << >>, completed |-> << >>]
    ELSE [active |-> LoadedFights(f[1].active_fights),
          completed |-> LoadedFights(f[1].completed_fights)]

\* C31: when the write of _save_locked fails, the fights in memory are the
\* ones last written to the file.
C31_FailedWriteKeepsPersisted ==
    [][\A p \in Callers :
          FightSaveReturn(p, FALSE)
          => /\ active_fights' = Persisted(ff_file').active
             /\ completed_fights' = Persisted(ff_file').completed]_vars

\* a stats text load can make records of: an object whose values have the
\* fields of MealStats
WellFormedStats(doc) ==
    /\ doc # InvalidText
    /\ \A k \in DOMAIN doc :
          DOMAIN doc[k] = {"count", "streak_current", "streak_best", "last_post_date_utc"}

C32_Fights ==
    Load => IF ff_file = NoFile
            THEN /\ ff_file' = <<FightsDumpsOf(<< >>, << >>)>>
                 /\ active_fights' = << >> /\ completed_fights' = << >>
            ELSE ~Readable(ff_file[1])
                    => active_fights' = << >> /\ completed_fights' = << >>

C32_Stats ==
    StatsLoad => IF file = NoFile
                 THEN file' = << << >> >> /\ data' = << >>
                 ELSE ~WellFormedStats(file[1]) => data' = << >>

\* C32: load creates a missing file with an empty skeleton and leaves the
\* manager empty, and leaves the manager empty when the file is malformed.
C32_LoadResets == [][C32_Fights /\ C32_Stats]_vars

\* the valid team emojis the user reacted with on the message
ReactedWith(reactions, user_id) ==
    {reactions[i].emoji : i \in {j \in DOMAIN reactions :
        InList(reactions[j].emoji, ValidEmojis) /\ InList(user_id, reactions[j].users)}}

\* the team assignments of every fight the manager holds
Assignments ==
    [i \in DOMAIN (active_fights \o completed_fights) |->
        Entry((active_fights \o completed_fights)[i].k,
              (active_fights \o completed_fights)[i].v.team_assignments)]

\* the fight started from the reactions gives every user who reacted with a
\* team emoji one team, one of those the user reacted with
C33_Assigned ==
    \A fight_id \in FightIds, m \in MessageReactions, pick \in Picks, t \in StoreNows :
        FoodFightStart("p1", fight_id, m, pick, t) /\ DictHas(active_fights', fight_id)
        => LET assigned == DictGet(active_fights', fight_id).team_assignments
           IN  \A u \in Users :
                  ReactedWith(m, u) # {}
                  => /\ Cardinality({i \in DOMAIN assigned : assigned[i].k = u}) = 1
                     /\ DictGet(assigned, u) \in ReactedWith(m, u)

\* a reaction added or removed and a dish logged leave every assignment alone
C33_Frozen ==
    (\/ \E u \in Users, t \in StoreNows : RecordDishCall("p1", u, t)
     \/ \E fight_id \in FightIds, emoji \in {"A", "C"}, u \in Users :
           OnRawReactionAdd("p1", MessageId(fight_id), emoji, u)
     \/ \E u \in Users : OnRawReactionRemove("p1", u))
    => Assignments' = Assignments

Updates(h) == handlers[h].op \in {"update", "user_add", "user_remove"}

C34_Handlers ==
    \A h \in Handlers :
        ParticipantsReturned(h, EnumerationFailed) /\ Updates(h)
        => /\ handlers'[h].participants = Cached(handlers[h].event)
           /\ cached_participants' = cached_participants

C34_Reminder ==
    \A e \in ForumEvents :
        SendReminder(e, EnumerationFailed) => reminder_message' = FormatParticipants(Cached(e))

\* C34: when the enumeration of the participants fails, the forum post
\* update and the reminder message use the cached participants, and the
\* cache stays as it is.
C34_FailureUsesCache == [][C34_Handlers /\ C34_Reminder]_vars

\* a call of on_scheduled_event_create ends
CreateEnds(h) ==
    handlers[h].op = "create" /\ handlers[h].at # "idle" /\ handlers'[h].at = "idle"

\* C35: on_scheduled_event_create calls schedule_archive exactly when the
\* call created the forum post; it does not when the creation failed or a
\* post existed already.
C35_SchedulesIffCreated ==
    [][\A h \in Handlers :
          /\ CreateEnds(h) => (tasks' # tasks <=> ThreadCreated(h, TRUE))
          /\ (\E e \in ForumEvents, start_time \in ForumStartTimes :
                 CreateDelivered(h, e, start_time, 0) /\ e \in DOMAIN event_posts)
             => tasks' = tasks]_vars

\* the posts created for the event
CreatedPosts(e) == {i \in DOMAIN threads : threads[i].event = e /\ threads[i].created}

\* C38: at most one forum post is created per event, whatever the
\* interleaving of the handlers.
C38_OnePostPerEvent == \A e \in ForumEvents : Cardinality(CreatedPosts(e)) <= 1

\* no handler is running
Quiet == \A h \in Handlers : handlers[h].at = "idle"

\* C39: once all update handlers of an event have finished, the pending
\* archive task is the one of the end time of the update delivered last.
C39_LastUpdateWins ==
    \A e \in ForumEvents :
        /\ Quiet
        /\ ~notifications.created
        /\ notifications.end_time # NoTime
        /\ e \in DOMAIN scheduled_tasks
        => tasks[scheduled_tasks[e]].time = notifications.end_time

C40_Enumerated ==
    \A h \in Handlers, result \in Enumerations :
        ParticipantsReturned(h, result) /\ result.ok /\ Updates(h)
        => /\ handlers'[h].participants = result.users
           /\ result.users = IF handlers[h].event \in DOMAIN cached_participants'
                             THEN cached_participants'[handlers[h].event] ELSE << >>

C40_Shown ==
    \A h \in Handlers :
        /\ PostEdited(h, "edited") /\ handlers[h].enumerated.ok
           => threads'[handlers[h].thread].content
                 = FormatEventContent(handlers[h].enumerated.users)
        /\ ThreadCreated(h, TRUE) /\ handlers[h].enumerated.ok
           => threads'[Len(threads')].content = FormatEventContent(handlers[h].enumerated.users)

\* C40: after a successful enumeration the forum post shows exactly the
\* enumerated participants and the cache holds them, also when nobody
\* participates.
C40_ShowsEnumerated == [][C40_Enumerated /\ C40_Shown]_vars

\* C37: a fight id is in at most one of active_fights and completed_fights.
C37_OneRecordPerId ==
    \A fight_id \in FightIds :
        ~(DictHas(active_fights, fight_id) /\ DictHas(completed_fights, fight_id))

\* C36: once on_scheduled_event_delete has run for an event, every reminder
\* task of the event is over or cancelled and stays so, no delayed archive
\* task of the event is left waiting, and a task that runs the archive action
\* at once has been created.
C36_DeleteCancelsAndArchives ==
    [][/\ OnScheduledEventDelete(1)
          => /\ \A t \in DOMAIN tasks' :
                   tasks'[t].event = 1 /\ tasks'[t].kind \in {"reminder", "archive_delayed"}
                   => Finished(tasks'[t])
             /\ tasks'[Len(tasks')] = Task("archive_now", 1, NoTime, 0, utcnow, "ready")
       /\ \A t \in DOMAIN tasks : tasks[t].state = "cancelled" => tasks'[t].state = "cancelled"
      ]_vars

====
